---- MODULE Spec2Model ----
(***************************************************************************)
(* Session core of chrome-devtools-debug-mcp: the CDP transport            *)
(* (CDPClient), the pause projection (DebugState) and the breakpoint-aware *)
(* calls of the facade (DebugSession).                                     *)
(*                                                                         *)
(* One action is one turn of the Node event loop: a facade call up to its  *)
(* first await, or one socket/timer callback, each followed by the promise *)
(* continuations (microtasks) it makes runnable.                           *)
(*                                                                         *)
(* The browser is the environment.  It answers each written request at     *)
(* most once, with a result or a protocol error, and sends Debugger.paused *)
(* (always with at least one call frame) and Debugger.resumed events at    *)
(* any time.  A socket on which close() was called still delivers the      *)
(* frames that reach it until its close event is emitted.                  *)
(*                                                                         *)
(* The caller is a tool handler.  It awaits connect() and launch(), so a   *)
(* connect is started only when no earlier one is still in progress; every *)
(* other call may be issued at any time, also while others are pending.    *)
(***************************************************************************)
EXTENDS Integers, Sequences, FiniteSets, TLC

\* ---- bounds ----
MaxCalls == 2
MaxSockets == 2

MaxBp == 2
MaxLoc == 2
MaxCap == 2
MaxNetIds == 3
MaxNetLog == 4
MaxUrlLen == 2
MaxPatLen == 4
MaxRules == 2
MaxMsgIds == 3
MaxArgs == 2
MaxProjEvents == 1
MaxSourceCalls == 2
MaxBodyLen == 3

\* every call sends at most one request
Ids == 1..MaxCalls
Sockets == 1..MaxSockets

\* ---- value domains of the environment ----
\* the result the browser computes for request r
ResultOf(r) == <<"result", r>>

PausedParams ==
  { [reason |-> "breakpoint", callFrames |-> <<"f1">>],
    [reason |-> "other", callFrames |-> <<"f2", "f1">>] }

\* the scripts of the page: each id under each url
ScriptIds == {"s1", "s2"}
ScriptUrls == {"", "u", "v"}
PageScripts == [scriptId : ScriptIds, url : ScriptUrls]

\* the source the page holds for a script: that of "s2" is empty
SourceOf(id) == IF id = "s1" THEN "x" ELSE ""

\* the code points of texts (A, a, =, e acute) and the bytes of files
TextChars == {65, 97, 61, 233}
FileBytes == {0, 65, 128, 255}

SeqsUpTo(S, n) == UNION {[1..k -> S] : k \in 0..n}
Texts == SeqsUpTo(TextChars, MaxBodyLen)
FileContents == SeqsUpTo(FileBytes, MaxBodyLen)

ClosedErrors == {"Disconnected", "Connection closed"}

\* the breakpoint ids the browser hands out and the locations it resolves
BpIds == 1..MaxBp
Locs == 1..MaxLoc

\* the request ids of the Network events and the caps setMaxRequests is given
NetIds == 1..MaxNetIds
Caps == 1..MaxCap

\* strings are sequences of characters; the characters of URLs and patterns
UrlChars == {"a", ".", "/"}
PatChars == {"a", ".", "*", "?", "/"}
Strings(chars, n) == UNION {[1..k -> chars] : k \in 0..n}
Urls == Strings(UrlChars, MaxUrlLen)
Patterns == Strings(PatChars, MaxPatLen)

\* JavaScript values: a string, a number, a boolean, null, or undefined
Str(x) == [kind |-> "string", str |-> x, num |-> 0, bool |-> FALSE]
Num(x) == [kind |-> "number", str |-> "", num |-> x, bool |-> FALSE]
Bool(x) == [kind |-> "boolean", str |-> "", num |-> 0, bool |-> x]
Null == [kind |-> "null", str |-> "", num |-> 0, bool |-> FALSE]
Undefined == [kind |-> "undefined", str |-> "", num |-> 0, bool |-> FALSE]

\* RemoteObject: its type, its value if it has one, its description if it
\* has one (the empty string stands for none: both are falsy)
RemoteObject(type, value, description) ==
  [type |-> type, value |-> value, description |-> description]

\* the arguments of console calls: a string, a number, a boolean, undefined,
\* an object with a description, an object with neither value nor
\* description, and null, which is an object whose value is null
RemoteObjects ==
  {RemoteObject("string", Str("a"), <<>>),
   RemoteObject("number", Num(1), <<"1">>),
   RemoteObject("boolean", Bool(TRUE), <<>>),
   RemoteObject("undefined", Undefined, <<>>),
   RemoteObject("object", Undefined, <<"Object">>),
   RemoteObject("function", Undefined, <<>>),
   RemoteObject("object", Null, <<>>)}

ArgLists == UNION {[1..k -> RemoteObjects] : k \in 0..MaxArgs}

\* the types of console calls
ConsoleTypes ==
  {"log", "error", "assert", "warning", "warn", "info", "debug", "trace",
   "table"}

\* the params of Runtime.consoleAPICalled
ConsoleParams(type, args) == [type |-> type, args |-> args]

\* every console call: every type with every single argument, and a log of
\* every list of arguments
AllConsoleParams ==
  {ConsoleParams(t, <<arg>>) : t \in ConsoleTypes, arg \in RemoteObjects}
    \cup {ConsoleParams("log", args) : args \in ArgLists}

\* the console calls and the exceptions of the page under the session
PageConsoleParams ==
  {ConsoleParams("log", <<RemoteObject("string", Str("a"), <<>>)>>),
   ConsoleParams("warn", <<RemoteObject("number", Num(1), <<"1">>),
                          RemoteObject("object", Undefined, <<"Object">>)>>)}
PageExceptions == {"TypeError"}

\* the requests the Fetch domain pauses: their ids, urls and resource types
FetchIds == {"req-1", "req-2"}
FetchUrls == {<<"a">>, <<"/">>}
ResourceTypes == {"XHR", "Document"}

\* an optional resourceTypes array
Absent == [present |-> FALSE, types |-> <<>>]
Types(list) == [present |-> TRUE, types |-> list]

\* the rules the caller adds: a catch-all, a glob restricted to XHR, a regex
\* that does not compile with an empty type filter, and a rule added disabled
RuleInputs ==
  {[pattern |-> <<"*">>, resourceTypes |-> Absent, action |-> "pause",
    enabled |-> "undefined"],
   [pattern |-> <<"a">>, resourceTypes |-> Types(<<"XHR">>), action |-> "mock",
    enabled |-> "true"],
   [pattern |-> <<"/", "*", "/">>, resourceTypes |-> Types(<<>>),
    action |-> "fail", enabled |-> "true"],
   [pattern |-> <<"?">>, resourceTypes |-> Absent, action |-> "modify",
    enabled |-> "false"]}

\* more rules of the caller: one with two resource types, one that repeats a
\* type, and one without types whose pattern ends in ":XHR" (a resource type
\* is one character of a string here)
MoreRuleInputs ==
  {[pattern |-> <<"a">>, resourceTypes |-> Types(<<"Document", "XHR">>),
    action |-> "pause", enabled |-> "true"],
   [pattern |-> <<"*">>, resourceTypes |-> Types(<<"XHR", "XHR">>),
    action |-> "pause", enabled |-> "true"],
   [pattern |-> <<"a", ":", "XHR">>, resourceTypes |-> Absent,
    action |-> "pause", enabled |-> "true"]}

\* the updates the caller makes to a rule
RuleUpdates ==
  {[pattern |-> <<"a">>], [action |-> "pause", enabled |-> FALSE]}

\* the three dispatch operations
DispatchMethods ==
  {"Fetch.continueRequest", "Fetch.fulfillRequest", "Fetch.failRequest"}

\* the location lists the browser returns from Debugger.setBreakpointByUrl
LocLists ==
  {<<>>} \cup {<<l>> : l \in Locs}
         \cup {<<l, l + 1>> : l \in {n \in Locs : n + 1 \in Locs}}

VARIABLES
  ws,               \* CDPClient.ws: 0 is null, otherwise the socket object
  connected,        \* CDPClient.connected
  requestId,        \* CDPClient.requestId
  pendingRequests,  \* CDPClient.pendingRequests: id -> [method]
  timers,           \* ids whose request timer (PendingRequest.timeout) is armed
  settled,          \* id -> number of resolve/reject invocations on its promise
  sockState,        \* per WebSocket object: its readyState
  connTimer,        \* sockets whose connectTimeout is armed
  wire,             \* per socket: the requests written on it and not answered
  written,          \* the ids for which a frame was written
  pauseState,       \* DebugState.pauseState
  enabled,          \* DebugState.enabled
  listeners,        \* calls whose once('paused') handler is registered
  nCalls,           \* number of facade calls issued so far
  calls,            \* the facade calls that have not returned yet
  returned,         \* what the calls that returned in the last turn returned
  discarded,        \* <<id, outcome>> settled in the last turn with no caller waiting
  lastTurn,         \* the kind of the last turn: "paused", "resumed", ..., "other"
  breakpoints,      \* DebugState.breakpoints: id -> its resolved locations
  netRequests,      \* NetworkState.requests: the records in insertion order
  maxRequests,      \* NetworkState.maxRequests
  netEnabled,       \* NetworkState.enabled
  netLog,           \* the ids of the requestWillBeSent events since the last clear
  netCapChanged,    \* setMaxRequests was called since the first of those events
  lastMatch,        \* the last pattern query: its arguments and what each
                    \* user of the pattern language answered
  rules,            \* FetchInterceptor.rules: the rules in insertion order
  ruleIdCounter,    \* FetchInterceptor.ruleIdCounter
  ruleIdLog,        \* the ids addRule returned since the last reset()
  pausedRequests,   \* FetchInterceptor.pausedRequests: id -> its record
  fetchEnabled,     \* FetchInterceptor.enabled
  fetchSent,        \* the Fetch requests sent in the last turn
  toolResult,       \* what the tool that ran in the last turn returned
  messages,         \* ConsoleState.messages
  exceptions,       \* ConsoleState.exceptions
  consoleEnabled,   \* ConsoleState.enabled
  maxMessages,      \* ConsoleState.maxMessages
  messageIdCounter, \* ConsoleState.messageIdCounter
  exceptionIdCounter, \* ConsoleState.exceptionIdCounter
  lastConsole,      \* the last console call whose message was built apart
  detect,           \* the withBreakpointDetection call: where it is, what it returned
  dispatching,      \* the dispatch whose Fetch request is awaited, if one is
  scripts,          \* ScriptRegistry.scripts: scriptId -> the url of its ScriptInfo
  urlToScriptIds,   \* ScriptRegistry.urlToScriptIds: url -> the ids added under it
  sourceCache,      \* ScriptRegistry.sourceCache: scriptId -> source
  sourceCalls,      \* the getScriptSource calls awaiting their CDP request
  nSourceCalls,     \* number of getScriptSource calls made so far
  lastSource,       \* the getScriptSource call of the last turn: what it did
  fulfillFrame      \* the last fulfilment: its tool, its body, the frame built

vars == <<ws, connected, requestId, pendingRequests, timers, settled,
          sockState, connTimer, wire, written, pauseState, enabled,
          listeners, nCalls, calls, returned, discarded, lastTurn,
          breakpoints, netRequests, maxRequests, netEnabled, netLog,
          netCapChanged, lastMatch, rules, ruleIdCounter, ruleIdLog,
          pausedRequests, fetchEnabled, fetchSent, toolResult, messages,
          exceptions, consoleEnabled, maxMessages, messageIdCounter,
          exceptionIdCounter, lastConsole, detect, dispatching, scripts,
          urlToScriptIds, sourceCache, sourceCalls, nSourceCalls, lastSource,
          fulfillFrame>>

bpVars == <<breakpoints>>
netVars == <<netRequests, maxRequests, netEnabled, netLog, netCapChanged>>
patVars == <<lastMatch>>
fetchVars == <<rules, ruleIdCounter, ruleIdLog, pausedRequests, fetchEnabled,
               fetchSent, toolResult, dispatching>>
consoleVars == <<messages, exceptions, consoleEnabled, maxMessages,
                 messageIdCounter, exceptionIdCounter>>
textVars == <<lastConsole>>
detectVars == <<detect>>
scriptVars == <<scripts, urlToScriptIds, sourceCache, sourceCalls,
                nSourceCalls, lastSource>>
frameVars == <<fulfillFrame>>

\* the projections other than the pause state
projVars == <<bpVars, netVars, patVars, fetchVars, consoleVars, textVars,
              detectVars, scriptVars, frameVars>>

\* the projections a turn of one projection leaves alone
exceptBp == <<netVars, patVars, fetchVars, consoleVars, textVars, detectVars,
    scriptVars, frameVars>>
exceptNet == <<bpVars, patVars, fetchVars, consoleVars, textVars, detectVars,
    scriptVars, frameVars>>
exceptPat == <<bpVars, netVars, fetchVars, consoleVars, textVars, detectVars,
    scriptVars, frameVars>>
exceptFetch == <<bpVars, netVars, patVars, consoleVars, textVars, detectVars,
    scriptVars, frameVars>>
exceptConsole == <<bpVars, netVars, patVars, fetchVars, textVars, detectVars,
    scriptVars, frameVars>>
exceptText == <<bpVars, netVars, patVars, fetchVars, consoleVars, detectVars,
    scriptVars, frameVars>>
exceptDetect == <<bpVars, netVars, patVars, fetchVars, consoleVars, textVars,
                  scriptVars, frameVars>>
exceptScript == <<bpVars, netVars, patVars, fetchVars, consoleVars, textVars,
                  detectVars, frameVars>>
exceptFrame == <<bpVars, netVars, patVars, fetchVars, consoleVars, textVars,
                 detectVars, scriptVars>>

transportVars == <<requestId, pendingRequests, timers, settled, wire, written>>
socketVars == <<ws, connected, sockState, connTimer>>
debugVars == <<pauseState, enabled>>

Empty == [r \in {} |-> 0]

Restrict(f, D) == [x \in D |-> f[x]]

\* ---- DebugState ----
Running == [isPaused |-> FALSE]

\* a setPaused that stores the reason and drops the frames
setPaused_dropFrames(reason, callFrames) ==
  [isPaused |-> TRUE, reason |-> reason, callFrames |-> <<>>]

setPaused(reason, callFrames) ==
  [isPaused |-> TRUE, reason |-> reason, callFrames |-> callFrames]

setResumed == Running

isPaused(ps) == ps.isPaused

getCallFrames(ps) ==
  IF "callFrames" \in DOMAIN ps THEN ps.callFrames ELSE <<>>

getReason(ps) ==
  IF "reason" \in DOMAIN ps THEN ps.reason ELSE "undefined"

reset == Running

\* setEnabled that resets whatever the flag
setEnabled_alwaysReset(ps, e) == reset

\* DebugState.setEnabled: the pause state after the call
setEnabled(ps, e) == IF e THEN ps ELSE reset

\* DebugState.addBreakpoint: Map.set under the id
addBreakpoint(B, id, locations) == (id :> locations) @@ B

\* DebugState.removeBreakpoint
removeBreakpoint(B, id) == Restrict(B, DOMAIN B \ {id})

\* DebugState.getAllBreakpoints
getAllBreakpoints(B) == {[id |-> b, locations |-> B[b]] : b \in DOMAIN B}

\* DebugState.updateBreakpointLocations
updateBreakpointLocations(B, id, locations) ==
  IF id \in DOMAIN B THEN [B EXCEPT ![id] = locations] ELSE B

\* DebugState.clearBreakpoints
clearBreakpoints == Empty

\* DebugState.reset: the breakpoints after the call
resetBreakpoints == clearBreakpoints

\* a setEnabled that leaves the breakpoints alone
setEnabledBreakpoints_keep(B, e) == B

\* DebugState.setEnabled: the breakpoints after the call
setEnabledBreakpoints(B, e) == IF e THEN B ELSE resetBreakpoints

\* ---- the pattern language: String and RegExp as the projections use them ----
\* String.startsWith / endsWith with a one-character argument
startsWith(str, c) == Len(str) >= 1 /\ str[1] = c
endsWith(str, c) == Len(str) >= 1 /\ str[Len(str)] = c

\* String.slice(1, -1)
slice1(str) == SubSeq(str, 2, Len(str) - 1)

\* str.replace(/x/g, f): every character c is replaced by f[c] where f is
\* defined, and kept otherwise
RECURSIVE replaceAll(_, _)
replaceAll(str, f) ==
  IF str = <<>> THEN <<>>
  ELSE (IF Head(str) \in DOMAIN f THEN f[Head(str)] ELSE <<Head(str)>>)
         \o replaceAll(Tail(str), f)

\* the characters of the class [.+^${}()|[\]\\]
Specials == {".", "+", "^", "$", "{", "}", "(", ")", "|", "[", "]", "\\"}

\* pattern.replace(/[.+^${}()|[\]\\]/g, '\\$&').replace(/\*/g, '.*')
\*        .replace(/\?/g, '.')
escaped(pattern) ==
  LET e1 == replaceAll(pattern, [c \in Specials |-> <<"\\", c>>])
      e2 == replaceAll(e1, [c \in {"*"} |-> <<".", "*">>])
  IN replaceAll(e2, [c \in {"?"} |-> <<".">>])

\* a compiled term: an atom (a literal, any character, or an assertion) and
\* its quantifier
Term(kind, ch) == [kind |-> kind, ch |-> ch, q |-> "one", lazy |-> FALSE]
SyntaxError == [ok |-> FALSE, terms |-> <<>>]

\* new RegExp(source): the terms of the source read from position i on, or a
\* SyntaxError (nothing to repeat, \ at end of pattern)
RECURSIVE parseRegExp(_, _, _)
parseRegExp(source, i, terms) ==
  IF i > Len(source) THEN [ok |-> TRUE, terms |-> terms]
  ELSE LET c == source[i]
           n == Len(terms)
       IN
    IF c = "\\"
      THEN IF i = Len(source) THEN SyntaxError
           ELSE parseRegExp(source, i + 2,
                            Append(terms, Term("lit", source[i + 1])))
    ELSE IF c = "^" THEN parseRegExp(source, i + 1, Append(terms, Term("bol", c)))
    ELSE IF c = "$" THEN parseRegExp(source, i + 1, Append(terms, Term("eol", c)))
    ELSE IF c = "." THEN parseRegExp(source, i + 1, Append(terms, Term("any", c)))
    ELSE IF c \in {"*", "?"}
      THEN IF n = 0 \/ terms[n].kind \in {"bol", "eol"} THEN SyntaxError
           ELSE IF terms[n].q = "one"
             THEN parseRegExp(source, i + 1,
                    [terms EXCEPT ![n].q = IF c = "*" THEN "star" ELSE "opt"])
           ELSE IF c = "?" /\ ~terms[n].lazy
             THEN parseRegExp(source, i + 1, [terms EXCEPT ![n].lazy = TRUE])
           ELSE SyntaxError
    ELSE parseRegExp(source, i + 1, Append(terms, Term("lit", c)))

RegExp(source) == parseRegExp(source, 1, <<>>)

\* whether the atom of a term accepts the character
accepts(term, c) == term.kind = "any" \/ (term.kind = "lit" /\ term.ch = c)

\* whether the terms from the k-th on match str from offset pos on
RECURSIVE matchAt(_, _, _, _)
matchAt(terms, k, str, pos) ==
  IF k > Len(terms) THEN TRUE
  ELSE LET t == terms[k]
           here == pos < Len(str) /\ accepts(t, str[pos + 1])
       IN
    IF t.kind = "bol" THEN pos = 0 /\ matchAt(terms, k + 1, str, pos)
    ELSE IF t.kind = "eol"
      THEN pos = Len(str) /\ matchAt(terms, k + 1, str, pos)
    ELSE IF t.q = "one" THEN here /\ matchAt(terms, k + 1, str, pos + 1)
    ELSE IF t.q = "opt"
      THEN \/ matchAt(terms, k + 1, str, pos)
           \/ here /\ matchAt(terms, k + 1, str, pos + 1)
    ELSE \/ matchAt(terms, k + 1, str, pos)
         \/ here /\ matchAt(terms, k, str, pos + 1)

\* regex.test(str) of a regex without flags: a match starting anywhere
test(regex, str) == \E pos \in 0..Len(str) : matchAt(regex.terms, 1, str, pos)

\* FetchInterceptor.matchesPattern
matchesPattern(url, pattern) ==
  IF pattern = <<"*">> THEN TRUE
  ELSE IF startsWith(pattern, "/") /\ endsWith(pattern, "/")
    THEN LET regex == RegExp(slice1(pattern))
         IN IF regex.ok THEN test(regex, url) ELSE FALSE
  ELSE test(RegExp(<<"^">> \o escaped(pattern) \o <<"$">>), url)

\* NetworkState.patternToRegex: the glob is not anchored
netPatternToRegex(pattern) ==
  IF startsWith(pattern, "/") /\ endsWith(pattern, "/")
    THEN RegExp(slice1(pattern))
    ELSE RegExp(escaped(pattern))

\* a call that returned the value, or threw
Returned(value) == [threw |-> FALSE, value |-> value]
Threw(zero) == [threw |-> TRUE, value |-> zero]

\* NetworkState.getRequestsByUrl on a store whose requests have the urls: the
\* exception of the RegExp constructor is not caught
getRequestsByUrl(urls, urlPattern) ==
  LET regex == netPatternToRegex(urlPattern)
  IN IF ~regex.ok THEN Threw(<<>>)
     ELSE Returned(SelectSeq(urls, LAMBDA url : test(regex, url)))

\* ScriptRegistry.patternToRegex
scriptPatternToRegex(pattern) ==
  IF startsWith(pattern, "/") /\ endsWith(pattern, "/")
    THEN RegExp(slice1(pattern))
    ELSE RegExp(<<"^">> \o escaped(pattern) \o <<"$">>)

\* ScriptRegistry.matchesUrl: the exception of the RegExp constructor is not
\* caught
matchesUrl(url, pattern) ==
  LET regex == scriptPatternToRegex(pattern)
  IN IF ~regex.ok THEN Threw(FALSE) ELSE Returned(test(regex, url))

\* ScriptRegistry.findScriptsByUrlPattern on a registry whose scripts have
\* the urls
findScriptsByUrlPattern(urls, pattern) ==
  LET regex == scriptPatternToRegex(pattern)
  IN IF ~regex.ok THEN Threw(<<>>)
     ELSE Returned(SelectSeq(urls, LAMBDA url : url # <<>> /\ test(regex, url)))

\* ---- FetchInterceptor ----
\* `rule-${n}`
ruleId(n) == <<"rule-", n>>

\* no rule
undefined == [id |-> <<>>]

\* rule.enabled ?? true
enabledOrTrue(e) == IF e = "undefined" THEN TRUE ELSE e = "true"

\* { ...rule, id, enabled: rule.enabled ?? true }
InterceptRule(id, rule) ==
  [id |-> id, pattern |-> rule.pattern, resourceTypes |-> rule.resourceTypes,
   action |-> rule.action, enabled |-> enabledOrTrue(rule.enabled)]

\* Map.set on the rules: a known id keeps its position
rulesSet(R, rule) ==
  IF \E i \in DOMAIN R : R[i].id = rule.id
    THEN [i \in DOMAIN R |-> IF R[i].id = rule.id THEN rule ELSE R[i]]
    ELSE Append(R, rule)

\* mutant: the id is taken from the number of rules
addRule_bySize(R, counter, rule) ==
  LET id == ruleId(Len(R) + 1)
  IN [rules |-> rulesSet(R, InterceptRule(id, rule)),
      ruleIdCounter |-> counter + 1, id |-> id]

\* addRule: the rules and the counter afterwards, and the id returned
addRule(R, counter, rule) ==
  LET id == ruleId(counter + 1)
  IN [rules |-> rulesSet(R, InterceptRule(id, rule)),
      ruleIdCounter |-> counter + 1, id |-> id]

removeRule(R, id) == SelectSeq(R, LAMBDA rule : rule.id # id)

getAllRules(R) == R

enableRule(R, id, e) ==
  [i \in DOMAIN R |-> IF R[i].id = id THEN [R[i] EXCEPT !.enabled = e] ELSE R[i]]

\* Object.assign(rule, updates)
assign(rule, updates) ==
  [f \in DOMAIN rule |-> IF f \in DOMAIN updates THEN updates[f] ELSE rule[f]]

updateRule(R, id, updates) ==
  [i \in DOMAIN R |-> IF R[i].id = id THEN assign(R[i], updates) ELSE R[i]]

clearRules == <<>>

\* Array.includes
includes(list, x) == \E i \in DOMAIN list : list[i] = x

\* mutant: disabled rules are not skipped
RECURSIVE findMatchingRule_disabledToo(_, _, _)
findMatchingRule_disabledToo(R, url, resourceType) ==
  IF R = <<>> THEN undefined
  ELSE LET rule == Head(R) IN
    IF /\ rule.resourceTypes.present
       /\ Len(rule.resourceTypes.types) > 0
       /\ ~includes(rule.resourceTypes.types, resourceType)
      THEN findMatchingRule_disabledToo(Tail(R), url, resourceType)
    ELSE IF matchesPattern(url, rule.pattern) THEN rule
    ELSE findMatchingRule_disabledToo(Tail(R), url, resourceType)

\* findMatchingRule: the loop over rules.values()
RECURSIVE findMatchingRule(_, _, _)
findMatchingRule(R, url, resourceType) ==
  IF R = <<>> THEN undefined
  ELSE LET rule == Head(R) IN
    IF ~rule.enabled THEN findMatchingRule(Tail(R), url, resourceType)
    ELSE IF /\ rule.resourceTypes.present
            /\ Len(rule.resourceTypes.types) > 0
            /\ ~includes(rule.resourceTypes.types, resourceType)
      THEN findMatchingRule(Tail(R), url, resourceType)
    ELSE IF matchesPattern(url, rule.pattern) THEN rule
    ELSE findMatchingRule(Tail(R), url, resourceType)

\* the Fetch.requestPaused event
FetchRequestPaused(id, url, resourceType) ==
  [requestId |-> id, url |-> url, resourceType |-> resourceType]

\* mutant: the matched rule is not looked up
onRequestPaused_noRule(P, R, event) ==
  (event.requestId :>
     [requestId |-> event.requestId, url |-> event.url,
      resourceType |-> event.resourceType,
      matchedRule |-> undefined.id]) @@ P

\* onRequestPaused: the record holds a reference to the matched rule, which
\* is the rule's id here
onRequestPaused(P, R, event) ==
  (event.requestId :>
     [requestId |-> event.requestId, url |-> event.url,
      resourceType |-> event.resourceType,
      matchedRule |-> findMatchingRule(R, event.url, event.resourceType).id])
  @@ P

getPausedRequest(P, id) == IF id \in DOMAIN P THEN P[id] ELSE undefined

\* mutant: the entry stays
removePausedRequest_keep(P, id) == P

removePausedRequest(P, id) == Restrict(P, DOMAIN P \ {id})

\* FetchInterceptor.setEnabled on the paused table
setEnabledPaused(P, e) == IF e THEN P ELSE Empty

\* an entry of the list getCDPPatterns builds
CDPPattern(pattern) == [urlPattern |-> pattern, requestStage |-> "Request"]
CDPTypedPattern(pattern, type) ==
  [urlPattern |-> pattern, resourceType |-> type, requestStage |-> "Request"]

\* `${rule.pattern}:${type}`
typedKey(pattern, type) == pattern \o <<":">> \o <<type>>

\* getCDPPatterns, the inner loop over rule.resourceTypes: acc holds the
\* patterns pushed and the keys seen so far
RECURSIVE pushTypes(_, _, _)
pushTypes(acc, pattern, types) ==
  IF types = <<>> THEN acc
  ELSE LET key == typedKey(pattern, Head(types)) IN
    pushTypes(
      IF key \in acc.seenPatterns THEN acc
      ELSE [patterns |-> Append(acc.patterns,
                                CDPTypedPattern(pattern, Head(types))),
            seenPatterns |-> acc.seenPatterns \cup {key}],
      pattern, Tail(types))

\* getCDPPatterns, the loop over rules.values()
RECURSIVE pushRules(_, _)
pushRules(acc, R) ==
  IF R = <<>> THEN acc
  ELSE LET rule == Head(R) IN
    IF ~rule.enabled THEN pushRules(acc, Tail(R))
    ELSE IF rule.resourceTypes.present /\ Len(rule.resourceTypes.types) > 0
      THEN pushRules(pushTypes(acc, rule.pattern, rule.resourceTypes.types),
                     Tail(R))
    ELSE IF rule.pattern \in acc.seenPatterns THEN pushRules(acc, Tail(R))
    ELSE pushRules([patterns |-> Append(acc.patterns, CDPPattern(rule.pattern)),
                    seenPatterns |-> acc.seenPatterns \cup {rule.pattern}],
                   Tail(R))

getCDPPatterns(R) == pushRules([patterns |-> <<>>, seenPatterns |-> {}], R).patterns

\* ---- ConsoleState ----
\* String(value)
digits == <<"0", "1", "2", "3", "4", "5", "6", "7", "8", "9">>
String(value) ==
  CASE value.kind = "string" -> <<value.str>>
    [] value.kind = "number" -> <<digits[value.num + 1]>>
    [] value.kind = "boolean" -> IF value.bool THEN <<"true">> ELSE <<"false">>
    [] value.kind = "null" -> <<"null">>
    [] OTHER -> <<"undefined">>

\* the callback of params.args.map: the text of one argument, which is
\* undefined for a string argument without a value
argText(arg) ==
  IF arg.type = "string"
    THEN IF arg.value.kind = "undefined" THEN [defined |-> FALSE, text |-> <<>>]
         ELSE [defined |-> TRUE, text |-> <<arg.value.str>>]
  ELSE IF arg.type = "undefined" THEN [defined |-> TRUE, text |-> <<"undefined">>]
  ELSE IF arg.value.kind # "undefined"
    THEN [defined |-> TRUE, text |-> String(arg.value)]
  ELSE IF arg.description # <<>> THEN [defined |-> TRUE, text |-> arg.description]
  ELSE [defined |-> TRUE, text |-> <<"[", arg.type, "]">>]

\* Array.join(' '): an undefined element is joined as the empty string
RECURSIVE join(_)
join(parts) ==
  IF parts = <<>> THEN <<>>
  ELSE LET head == IF Head(parts).defined THEN Head(parts).text ELSE <<>>
       IN IF Len(parts) = 1 THEN head
          ELSE head \o <<" ">> \o join(Tail(parts))

\* mutant: warnings are logged as errors
typeToLevel_warnAsError(type) ==
  IF type \in {"error", "assert", "warning", "warn"} THEN "error"
  ELSE IF type = "info" THEN "info"
  ELSE IF type \in {"debug", "trace"} THEN "debug"
  ELSE "log"

typeToLevel(type) ==
  IF type \in {"error", "assert"} THEN "error"
  ELSE IF type \in {"warning", "warn"} THEN "warning"
  ELSE IF type = "info" THEN "info"
  ELSE IF type \in {"debug", "trace"} THEN "debug"
  ELSE "log"

\* the message onConsoleAPICalled builds
CollectedConsoleMessage(id, params) ==
  [id |-> id, type |-> params.type, level |-> typeToLevel(params.type),
   text |-> join([i \in DOMAIN params.args |-> argText(params.args[i])])]

\* the exception onExceptionThrown builds
CollectedException(id, details) == [id |-> id, details |-> details]

\* mutant: the newest entry is dropped at the cap
addMessage_dropNewest(list, max, msg) ==
  IF Len(list) >= max THEN list ELSE Append(list, msg)

\* addMessage and addException: shift at the cap, then push
addMessage(list, max, msg) ==
  Append(IF Len(list) >= max /\ list # <<>> THEN Tail(list) ELSE list, msg)

\* the while loops of setMaxMessages
RECURSIVE trim(_, _)
trim(list, max) == IF Len(list) > max THEN trim(Tail(list), max) ELSE list

getMessages(M) == M
getExceptions(X) == X
getMessageCount(M) == Len(M)
getExceptionCount(X) == Len(X)

\* ConsoleState.clear
clearConsole == <<>>

\* ConsoleState.setEnabled on a list
setEnabledConsole(list, e) == IF e THEN list ELSE clearConsole

\* ---- ScriptRegistry ----
\* the three maps of the registry
Registry ==
  [scripts |-> scripts, urlToScriptIds |-> urlToScriptIds,
   sourceCache |-> sourceCache]

\* ScriptRegistry.addScript: the script replaces the one stored under its id;
\* a script with a url is added to the set of that url
addScript(R, script) ==
  LET ids == IF script.url \in DOMAIN R.urlToScriptIds
               THEN R.urlToScriptIds[script.url] ELSE {}
  IN [R EXCEPT
        !.scripts = (script.scriptId :> script.url) @@ @,
        !.urlToScriptIds =
           IF script.url # ""
             THEN (script.url :> (ids \cup {script.scriptId})) @@ @
             ELSE @]

\* ScriptRegistry.getScriptsByUrl: the stored scripts of the ids in the set of
\* the url, as a set
getScriptsByUrl(R, url) ==
  IF url \notin DOMAIN R.urlToScriptIds THEN {}
  ELSE {[scriptId |-> id, url |-> R.scripts[id]] :
          id \in R.urlToScriptIds[url] \cap DOMAIN R.scripts}

\* ScriptRegistry.getAllScripts, as a set
getAllScripts(R) ==
  {[scriptId |-> id, url |-> R.scripts[id]] : id \in DOMAIN R.scripts}

\* ScriptRegistry.setSource
setSource(R, scriptId, source) ==
  [R EXCEPT !.sourceCache = (scriptId :> source) @@ @]

\* ScriptRegistry.getSource: <<>> is undefined
getSource(R, scriptId) ==
  IF scriptId \in DOMAIN R.sourceCache
    THEN <<R.sourceCache[scriptId]>> ELSE <<>>

\* ScriptRegistry.clear
clearScripts ==
  [scripts |-> Empty, urlToScriptIds |-> Empty, sourceCache |-> Empty]

\* the test `if (cached)` of getScriptSource on what getSource returned:
\* undefined and the empty string are falsy
cachedIsTruthy(cached) == cached # <<>> /\ cached[1] # ""

\* ---- the body of Fetch.fulfillRequest ----
\* a text is a sequence of code points, a buffer a sequence of bytes, and a
\* base64 text a sequence of the code points of its characters

\* Buffer.from(text): the UTF-8 bytes of code points below 0x800
RECURSIVE utf8(_)
utf8(text) ==
  IF text = <<>> THEN <<>>
  ELSE LET cp == text[1]
       IN (IF cp < 128 THEN <<cp>>
           ELSE <<192 + (cp \div 64), 128 + (cp % 64)>>) \o utf8(Tail(text))

\* the character of a sextet in the base64 alphabet
base64Char(i) ==
  IF i < 26 THEN 65 + i
  ELSE IF i < 52 THEN 97 + (i - 26)
  ELSE IF i < 62 THEN 48 + (i - 52)
  ELSE IF i = 62 THEN 43 ELSE 47

base64Pad == <<61>>

\* Buffer.toString('base64')
RECURSIVE base64(_)
base64(bytes) ==
  IF bytes = <<>> THEN <<>>
  ELSE IF Len(bytes) = 1
    THEN LET n == bytes[1] * 65536
         IN <<base64Char(n \div 262144), base64Char((n \div 4096) % 64)>>
              \o base64Pad \o base64Pad
  ELSE IF Len(bytes) = 2
    THEN LET n == bytes[1] * 65536 + bytes[2] * 256
         IN <<base64Char(n \div 262144), base64Char((n \div 4096) % 64),
              base64Char((n \div 64) % 64)>> \o base64Pad
  ELSE LET n == bytes[1] * 65536 + bytes[2] * 256 + bytes[3]
       IN <<base64Char(n \div 262144), base64Char((n \div 4096) % 64),
            base64Char((n \div 64) % 64), base64Char(n % 64)>>
            \o base64(SubSeq(bytes, 4, Len(bytes)))

\* the options of DebugSession.fulfillRequest; <<>> is an absent property
FulfillOptions(body, bodyBase64) == [body |-> body, bodyBase64 |-> bodyBase64]

\* DebugSession.fulfillRequest: the body of the params it sends. A body that
\* is absent or the empty string is not put into the params.
fulfillRequest(options) ==
  [body |-> IF options.body # <<>> /\ options.body[1] # <<>>
              THEN <<base64(utf8(options.body[1]))>>
              ELSE <<>>]

\* the fulfill_request tool: the text goes into options.body
fulfillRequestTool(body) == fulfillRequest(FulfillOptions(<<body>>, <<>>))

\* the fulfill_request_with_file tool: the encoded content of the file goes
\* into options.bodyBase64
fulfillRequestWithFile(fileContent) ==
  fulfillRequest(FulfillOptions(<<>>, <<base64(fileContent)>>))

NoFulfill == [tool |-> "none", given |-> <<>>, params |-> [body |-> <<>>]]

NoSourceCall ==
  [call |-> 0, scriptId |-> "none", sent |-> FALSE, outcome |-> "none",
   returned |-> <<>>]

\* ---- NetworkState ----
\* the record onRequestWillBeSent stores
CollectedRequest(id) == [requestId |-> id]

\* the position of the record stored under id, 0 if there is none
indexOf(R, id) ==
  IF \E i \in DOMAIN R : R[i].requestId = id
    THEN CHOOSE i \in DOMAIN R : R[i].requestId = id
    ELSE 0

\* Map.set: an existing key keeps its place, a new one goes last
mapSet(R, rec) ==
  IF indexOf(R, rec.requestId) # 0
    THEN [R EXCEPT ![indexOf(R, rec.requestId)] = rec]
    ELSE Append(R, rec)

\* an onRequestWillBeSent that evicts the newest record
onRequestWillBeSent_whenEnabled(R, max, id) ==
  IF netEnabled
    THEN LET kept == IF Len(R) >= max /\ R # <<>> THEN Tail(R) ELSE R
         IN mapSet(kept, CollectedRequest(id))
    ELSE R

onRequestWillBeSent_evictNewest(R, max, id) ==
  LET kept == IF Len(R) >= max /\ R # <<>>
                THEN SubSeq(R, 1, Len(R) - 1) ELSE R
  IN mapSet(kept, CollectedRequest(id))

\* NetworkState.onRequestWillBeSent: at the cap the first key of the map is
\* deleted, then the record is set under its id
onRequestWillBeSent(R, max, id) ==
  LET kept == IF Len(R) >= max /\ R # <<>> THEN Tail(R) ELSE R
  IN mapSet(kept, CollectedRequest(id))

\* NetworkState.getAllRequests
getAllRequests(R) == R

\* NetworkState.getCount
getCount(R) == Len(R)

\* NetworkState.clear
clearRequests == <<>>

\* NetworkState.setEnabled: the records after the call
setEnabledRequests(R, e) == IF e THEN R ELSE clearRequests

\* ---- DebugSession.withBreakpointDetection ----
\* what the call hands back: a BreakpointAwareResult, or an error thrown
Detected(paused, result, pauseReason, callFrames, err) ==
  [paused |-> paused, result |-> result, pauseReason |-> pauseReason,
   callFrames |-> callFrames, err |-> err]
NoResult == Detected(FALSE, <<"none">>, "none", <<>>, "none")

\* the call: pc is "idle" before the first call, "plain" while it awaits the
\* operation with the debugger disabled, "op" while it awaits the operation
\* with the debugger enabled, "window" while it waits for a pause, "returned"
\* afterwards; handler: its once('paused') handler is registered; result:
\* what the operation resolved with; out: what the call handed back
Detection(pc, handler, result, out) ==
  [pc |-> pc, handler |-> handler, result |-> result, out |-> out]
NoDetection == Detection("idle", FALSE, <<"none">>, NoResult)

\* defaultResult of a caller that passes none
defaultResult == <<"undefined">>

\* the operations the callers wrap and what they resolve with
DetectionResults == {<<"result", "click">>}

\* the call up to its first await
withBreakpointDetection(ps, en) ==
  IF isPaused(ps)
    THEN Detection("returned", FALSE, <<"none">>,
                   Detected(FALSE, <<"none">>, getReason(ps), <<>>, "PausedError"))
  ELSE IF ~en
    THEN Detection("plain", FALSE, <<"none">>, NoResult)
  ELSE Detection("op", FALSE, <<"none">>, NoResult)

\* the operation resolves: the call returns, or registers its handler and
\* starts the timer of the window
onOperationResolved(d, result) ==
  IF d.pc = "plain"
    THEN Detection("returned", FALSE, result,
                   Detected(FALSE, result, "none", <<>>, "none"))
    ELSE Detection("window", TRUE, result, NoResult)

\* the operation rejects: the error leaves the call before any handler is
\* registered
onOperationRejected(d) ==
  Detection("returned", FALSE, <<"none">>,
            Detected(FALSE, <<"none">>, "none", <<>>, "rejected"))

\* a handler registered before the operation is awaited
onPausedDetection_duringOperation(d, params) ==
  IF d.handler \/ d.pc = "op"
    THEN Detection("returned", FALSE, d.result,
                   Detected(TRUE, defaultResult, params.reason,
                            params.callFrames, "none"))
    ELSE d

\* emit('paused'): the handler resolves pausedPromise, the race is won, the
\* finally block removes the handler
onPausedDetection(d, params) ==
  IF d.handler
    THEN Detection("returned", FALSE, d.result,
                   Detected(TRUE, defaultResult, params.reason,
                            params.callFrames, "none"))
    ELSE d

\* pauseState.reason || 'unknown'
reasonOrUnknown(ps) ==
  IF "reason" \in DOMAIN ps THEN ps.reason ELSE "unknown"

\* the timer of the window fires: the state is looked at once more, the
\* finally block removes the handler
onWindowElapsed(d, ps) ==
  IF isPaused(ps)
    THEN Detection("returned", FALSE, d.result,
                   Detected(TRUE, defaultResult, reasonOrUnknown(ps),
                            getCallFrames(ps), "none"))
    ELSE Detection("returned", FALSE, d.result,
                   Detected(FALSE, d.result, "none", <<>>, "none"))

\* ---- CDPClient: the pending table, its timers and its promises ----
Transport == [pendingRequests |-> pendingRequests, timers |-> timers,
              settled |-> settled]

\* rejectAllPending without clearTimeout: the timers stay armed
rejectAllPending_keepTimers(T) ==
  [pendingRequests |-> Empty,
   timers |-> T.timers,
   settled |-> [r \in Ids |->
                  IF r \in DOMAIN T.pendingRequests
                    THEN T.settled[r] + 1
                    ELSE T.settled[r]]]

\* rejectAllPending without pendingRequests.clear()
rejectAllPending_noClear(T) ==
  [pendingRequests |-> T.pendingRequests,
   timers |-> T.timers \ DOMAIN T.pendingRequests,
   settled |-> [r \in Ids |->
                  IF r \in DOMAIN T.pendingRequests
                    THEN T.settled[r] + 1
                    ELSE T.settled[r]]]

rejectAllPending(T) ==
  [pendingRequests |-> Empty,
   timers |-> T.timers \ DOMAIN T.pendingRequests,
   settled |-> [r \in Ids |->
                  IF r \in DOMAIN T.pendingRequests
                    THEN T.settled[r] + 1
                    ELSE T.settled[r]]]

\* handleResponse that settles the promise and leaves slot and timer alone
handleResponse_noDelete(T, id) ==
  IF id \notin DOMAIN T.pendingRequests
    THEN T
    ELSE [T EXCEPT !.settled = [T.settled EXCEPT ![id] = @ + 1]]

handleResponse(T, id) ==
  IF id \notin DOMAIN T.pendingRequests
    THEN T
    ELSE [pendingRequests |->
            Restrict(T.pendingRequests, DOMAIN T.pendingRequests \ {id}),
          timers |-> T.timers \ {id},
          settled |-> [T.settled EXCEPT ![id] = @ + 1]]

\* a timer callback that rejects and leaves the slot in the table
onRequestTimeout_keepSlot(T, id) ==
  [pendingRequests |-> T.pendingRequests,
   timers |-> T.timers \ {id},
   settled |-> [T.settled EXCEPT ![id] = @ + 1]]

\* the callback of the request timer armed by send
onRequestTimeout(T, id) ==
  [pendingRequests |->
     Restrict(T.pendingRequests, DOMAIN T.pendingRequests \ {id}),
   timers |-> T.timers \ {id},
   settled |-> [T.settled EXCEPT ![id] = @ + 1]]

\* WebSocket.close() on socket s: the readyState afterwards
closeSocket(st, s) ==
  IF s = 0 THEN st
  ELSE IF st[s] = "connecting" THEN [st EXCEPT ![s] = "aborted"]
  ELSE IF st[s] = "open" THEN [st EXCEPT ![s] = "closing"]
  ELSE st

\* ---- CDPClient.send ----
\* the guard of send: a frame is only attempted on a socket held as connected
sendAccepted(w, conn) == w # 0 /\ conn

\* WebSocket.send(): throws while CONNECTING, writes while OPEN, and drops
\* the frame silently once close() was called or the socket is closed
wsSendThrows(st, w) == st[w] = "connecting"
wsSendWrites(st, w) == st[w] = "open"

\* send that takes the id without advancing the counter past the first one
Send_sameId(method) ==
  LET id == IF requestId = 0 THEN 1 ELSE requestId IN
  /\ requestId' = id
  /\ pendingRequests' = (id :> [method |-> method]) @@ pendingRequests
  /\ timers' = timers \cup {id}
  /\ wire' = IF wsSendWrites(sockState, ws)
               THEN [wire EXCEPT ![ws] = @ \cup {id}]
               ELSE wire
  /\ written' = IF wsSendWrites(sockState, ws)
                  THEN written \cup {id}
                  ELSE written
  /\ settled' = IF wsSendThrows(sockState, ws)
                  THEN [settled EXCEPT ![id] = @ + 1]
                  ELSE settled

Send(method) ==
  LET id == requestId + 1 IN
  /\ requestId' = id
  /\ pendingRequests' = (id :> [method |-> method]) @@ pendingRequests
  /\ timers' = timers \cup {id}
  /\ wire' = IF wsSendWrites(sockState, ws)
               THEN [wire EXCEPT ![ws] = @ \cup {id}]
               ELSE wire
  /\ written' = IF wsSendWrites(sockState, ws)
                  THEN written \cup {id}
                  ELSE written
  /\ settled' = IF wsSendThrows(sockState, ws)
                  THEN [settled EXCEPT ![id] = @ + 1]
                  ELSE settled

\* ---- DebugSession: the calls of the facade ----
Method(op) ==
  CASE op = "evaluate" -> "Runtime.evaluate"
    [] op = "evaluateOnCallFrame" -> "Debugger.evaluateOnCallFrame"
    [] op = "pause" -> "Debugger.pause"
    [] op = "enableDebugger" -> "Debugger.enable"
    [] op = "disableDebugger" -> "Debugger.disable"

\* what a call hands back to its caller: a value, or an error thrown
Return(op, req) ==
  [op |-> op, req |-> req, paused |-> FALSE, result |-> <<"none">>,
   err |-> "none", pauseReason |-> "none", callFrames |-> <<>>]

\* the continuation of a call once the promise of its send settles
onSettled(call, outcome, val) ==
  IF outcome = "result"
    THEN [Return(call.op, call.req) EXCEPT !.result = val, !.paused = FALSE]
    ELSE [Return(call.op, call.req) EXCEPT !.err = outcome]

\* a pause handler that drops the parameters of the event
onPausedWin_noParams(call, params) ==
  [Return(call.op, call.req) EXCEPT
     !.paused = TRUE, !.result = <<"undefined">>]

\* the continuation of a call whose pausedPromise wins the race
onPausedWin(call, params) ==
  [Return(call.op, call.req) EXCEPT
     !.paused = TRUE, !.result = <<"undefined">>,
     !.pauseReason = params.reason, !.callFrames = params.callFrames]

\* a finally block that does not unregister the handler
removeListener_never(L, cs) == L

\* finally { this.removeListener('paused', pauseHandler) }
removeListener(L, cs) == L \ cs

\* evaluate without the check
evaluatePrecheck_never(ps) == FALSE

\* evaluate: the check made before anything is sent
evaluatePrecheck(ps) == isPaused(ps)

\* evaluate that never registers a handler
evaluateRaces_never(en) == FALSE

\* evaluate that races whether or not the debugger is enabled
evaluateRaces_always(en) == TRUE

\* evaluate: whether the call races the send against the next pause
evaluateRaces(en) == en

\* the calls that wait for the promise of one of the requests R
callsOf(cs, R) == {c \in DOMAIN cs : cs[c].req \in R}

\* A facade call up to its first await.  precheck: the call refuses to run
\* while paused; races: it registers a once('paused') handler.
Issue(op, precheck, races) ==
  LET c == nCalls + 1
      registered == IF races THEN listeners \cup {c} ELSE listeners
  IN
  /\ nCalls < MaxCalls
  /\ nCalls' = c
  /\ lastTurn' = "other"
  /\ UNCHANGED projVars
  /\ discarded' = {}
  /\ UNCHANGED <<socketVars, debugVars>>
  /\ IF precheck
       THEN /\ returned' = c :> [Return(op, 0) EXCEPT
                                   !.err = "PausedError",
                                   !.pauseReason = getReason(pauseState)]
            /\ UNCHANGED <<transportVars, listeners, calls>>
     ELSE IF ~sendAccepted(ws, connected)
       THEN /\ returned' = c :> [Return(op, 0) EXCEPT !.err = "Not connected"]
            /\ listeners' = removeListener(registered, {c})
            /\ UNCHANGED <<transportVars, calls>>
     ELSE /\ Send(Method(op))
          /\ IF wsSendThrows(sockState, ws)
               THEN /\ returned' = c :> [Return(op, requestId + 1) EXCEPT
                                           !.err = "not open"]
                    /\ listeners' = removeListener(registered, {c})
                    /\ calls' = calls
               ELSE /\ returned' = Empty
                    /\ listeners' = registered
                    /\ calls' = (c :> [op |-> op, req |-> requestId + 1,
                                       pc |-> IF races THEN "race"
                                                       ELSE "await"]) @@ calls

Evaluate ==
  Issue("evaluate", evaluatePrecheck(pauseState), evaluateRaces(enabled))

EvaluateOnCallFrame == Issue("evaluateOnCallFrame", FALSE, TRUE)

Pause == Issue("pause", FALSE, FALSE)

EnableDebugger == Issue("enableDebugger", FALSE, FALSE)

DisableDebugger == Issue("disableDebugger", FALSE, FALSE)

\* the promises of the requests R settle: their callers continue and return
Continue(R, outcome, val) ==
  LET cs == callsOf(calls, R) IN
  /\ calls' = Restrict(calls, DOMAIN calls \ cs)
  /\ returned' = [c \in cs |-> onSettled(calls[c], outcome, val)]
  /\ listeners' = removeListener(listeners, cs)
  /\ discarded' = {<<r, outcome>> : r \in {q \in R : callsOf(calls, {q}) = {}}}

\* ---- CDPClient.connect and the callbacks of its socket ----
unused == {s \in Sockets : sockState[s] = "unused"}

\* a connect() whose promise is not settled yet
connecting == {s \in Sockets : sockState[s] = "connecting"}

\* connect(): a new WebSocket replaces this.ws and its connectTimeout is armed.
\* The tools await connect(), connectToTarget() and launch(): the caller does
\* not start a connect while the promise of an earlier one is unsettled.
Connect ==
  /\ ~connected
  /\ connecting = {}
  /\ unused # {}
  /\ LET s == CHOOSE u \in unused : \A v \in unused : u <= v IN
     /\ ws' = s
     /\ sockState' = [sockState EXCEPT ![s] = "connecting"]
     /\ connTimer' = connTimer \cup {s}
  /\ returned' = Empty
  /\ lastTurn' = "other"
  /\ UNCHANGED projVars
  /\ discarded' = {}
  /\ UNCHANGED <<connected, transportVars, debugVars, listeners, nCalls,
                 calls>>

\* ws.on('open')
SockOpen(s) ==
  /\ sockState[s] = "connecting"
  /\ sockState' = [sockState EXCEPT ![s] = "open"]
  /\ connTimer' = connTimer \ {s}
  /\ connected' = TRUE
  /\ returned' = Empty
  /\ lastTurn' = "other"
  /\ UNCHANGED projVars
  /\ discarded' = {}
  /\ UNCHANGED <<ws, transportVars, debugVars, listeners, nCalls, calls>>

\* ws.on('error') of a handshake that fails; the close event follows
SockError(s) ==
  /\ sockState[s] = "connecting"
  /\ sockState' = [sockState EXCEPT ![s] = "aborted"]
  /\ connTimer' = connTimer \ {s}
  /\ returned' = Empty
  /\ lastTurn' = "other"
  /\ UNCHANGED projVars
  /\ discarded' = {}
  /\ UNCHANGED <<ws, connected, transportVars, debugVars, listeners, nCalls,
                 calls>>

\* the connectTimeout callback of the connect() that created s:
\* this.ws?.close(), on whatever socket this.ws is by now
ConnectTimeout(s) ==
  /\ s \in connTimer
  /\ sockState' = closeSocket(sockState, ws)
  /\ connTimer' = (connTimer \ {s}) \
                    (IF ws # 0 /\ sockState[ws] = "connecting"
                       THEN {ws} ELSE {})
  /\ returned' = Empty
  /\ lastTurn' = "other"
  /\ UNCHANGED projVars
  /\ discarded' = {}
  /\ UNCHANGED <<ws, connected, transportVars, debugVars, listeners, nCalls,
                 calls>>

\* ws.on('close'): of a socket closed by either side
SockClose(s) ==
  /\ sockState[s] \in {"open", "closing", "aborted"}
  /\ sockState' = [sockState EXCEPT ![s] = "closed"]
  /\ connected' = FALSE
  /\ LET T == rejectAllPending(Transport)
     IN /\ pendingRequests' = T.pendingRequests
        /\ timers' = T.timers
        /\ settled' = T.settled
  /\ Continue(DOMAIN pendingRequests, "Connection closed", <<"none">>)
  /\ lastTurn' = "other"
  /\ UNCHANGED projVars
  /\ UNCHANGED <<ws, connTimer, requestId, wire, written, debugVars, nCalls>>

\* CDPClient.disconnect()
clientDisconnect ==
  IF ws # 0
    THEN LET T == rejectAllPending(Transport)
         IN /\ sockState' = closeSocket(sockState, ws)
            /\ connTimer' = connTimer \
                 (IF sockState[ws] = "connecting" THEN {ws} ELSE {})
            /\ ws' = 0
            /\ connected' = FALSE
            /\ pendingRequests' = T.pendingRequests
            /\ timers' = T.timers
            /\ settled' = T.settled
            /\ Continue(DOMAIN pendingRequests, "Disconnected", <<"none">>)
    ELSE /\ returned' = Empty
         /\ discarded' = {}
         /\ UNCHANGED <<socketVars, pendingRequests, timers, settled, calls,
                        listeners>>

\* DebugSession.disconnect(): CDPClient.disconnect(), then reset()
Disconnect ==
  /\ clientDisconnect
  /\ pauseState' = reset
  /\ breakpoints' = resetBreakpoints
  /\ netRequests' = clearRequests
  /\ netLog' = <<>>
  /\ netCapChanged' = FALSE
  /\ rules' = clearRules
  /\ pausedRequests' = Empty
  /\ ruleIdCounter' = 0
  /\ ruleIdLog' = <<>>
  /\ messages' = clearConsole
  /\ exceptions' = clearConsole
  /\ UNCHANGED <<maxRequests, netEnabled, patVars, fetchEnabled, fetchSent,
                 toolResult, consoleEnabled, maxMessages, messageIdCounter,
                 exceptionIdCounter, textVars, detectVars, dispatching>>
  /\ scripts' = clearScripts.scripts
  /\ urlToScriptIds' = clearScripts.urlToScriptIds
  /\ sourceCache' = clearScripts.sourceCache
  /\ sourceCalls' = Empty
  /\ UNCHANGED <<nSourceCalls, lastSource, frameVars>>
  /\ lastTurn' = "disconnect"
  /\ UNCHANGED <<requestId, wire, written, enabled, nCalls>>

\* ---- inbound frames: handleMessage ----
delivers(s) == sockState[s] \in {"open", "closing"}

\* a frame with an id: handleResponse, then the continuation of the caller
Response(s, r, outcome, val) ==
  /\ delivers(s)
  /\ r \in wire[s]
  /\ wire' = [wire EXCEPT ![s] = @ \ {r}]
  /\ LET T == handleResponse(Transport, r)
         R == {r} \cap DOMAIN pendingRequests
         done == {c \in callsOf(calls, R) :
                    calls[c].pc = "await" /\ outcome = "result"}
     IN /\ pendingRequests' = T.pendingRequests
        /\ timers' = T.timers
        /\ settled' = T.settled
        /\ Continue(R, outcome, val)
        /\ enabled' =
             IF \E c \in done : calls[c].op = "enableDebugger" THEN TRUE
             ELSE IF \E c \in done : calls[c].op = "disableDebugger" THEN FALSE
             ELSE enabled
        /\ pauseState' =
             IF \E c \in done : calls[c].op = "enableDebugger"
               THEN setEnabled(pauseState, TRUE)
             ELSE IF \E c \in done : calls[c].op = "disableDebugger"
               THEN setEnabled(pauseState, FALSE)
             ELSE pauseState
        /\ breakpoints' =
             IF \E c \in done : calls[c].op = "enableDebugger"
               THEN setEnabledBreakpoints(breakpoints, TRUE)
             ELSE IF \E c \in done : calls[c].op = "disableDebugger"
               THEN setEnabledBreakpoints(breakpoints, FALSE)
             ELSE breakpoints
  /\ lastTurn' = "other"
  /\ UNCHANGED exceptBp
  /\ UNCHANGED <<socketVars, requestId, written, nCalls>>

\* an emit that runs the handler registered first and leaves the others
PausedEvent_firstListenerOnly(s, params) ==
  LET first == {c \in listeners : \A d \in listeners : c <= d} IN
  /\ delivers(s)
  /\ pauseState' = setPaused(params.reason, params.callFrames)
  /\ calls' = Restrict(calls, DOMAIN calls \ first)
  /\ returned' = [c \in first \cap DOMAIN calls |->
                    onPausedWin(calls[c], params)]
  /\ listeners' = listeners \ first
  /\ lastTurn' = "paused"
  /\ UNCHANGED exceptDetect
  /\ detect' = onPausedDetection(detect, params)
  /\ discarded' = {}
  /\ UNCHANGED <<socketVars, transportVars, enabled, nCalls>>

\* the Debugger.paused frame: setPaused, then emit('paused')
PausedEvent(s, params) ==
  /\ delivers(s)
  /\ pauseState' = setPaused(params.reason, params.callFrames)
  /\ calls' = Restrict(calls, DOMAIN calls \ listeners)
  /\ returned' = [c \in listeners \cap DOMAIN calls |->
                    onPausedWin(calls[c], params)]
  /\ listeners' = {}
  /\ lastTurn' = "paused"
  /\ UNCHANGED exceptDetect
  /\ detect' = onPausedDetection(detect, params)
  /\ discarded' = {}
  /\ UNCHANGED <<socketVars, transportVars, enabled, nCalls>>

\* the Debugger.resumed frame
ResumedEvent(s) ==
  /\ delivers(s)
  /\ pauseState' = setResumed
  /\ returned' = Empty
  /\ lastTurn' = "resumed"
  /\ UNCHANGED projVars
  /\ discarded' = {}
  /\ UNCHANGED <<socketVars, transportVars, enabled, listeners, nCalls,
                 calls>>

\* the request timer of send fires
Timeout(r) ==
  /\ r \in timers
  /\ LET T == onRequestTimeout(Transport, r)
     IN /\ pendingRequests' = T.pendingRequests
        /\ timers' = T.timers
        /\ settled' = T.settled
  /\ Continue({r}, "timeout", <<"none">>)
  /\ lastTurn' = "other"
  /\ UNCHANGED projVars
  /\ UNCHANGED <<socketVars, requestId, wire, written, debugVars, nCalls>>

\* ---- breakpoints: the continuations of the facade calls and the event ----
\* In BpSpec a facade call is the turn in which the promise of its send
\* resolves and its continuation runs; Spec is the transport under it.
\* the session variables a breakpoint turn leaves alone
sessionVars == <<socketVars, transportVars, debugVars, listeners, nCalls, calls>>

\* a turn in which no call returns
quietTurn ==
  /\ returned' = Empty
  /\ discarded' = {}
  /\ lastTurn' = "other"

\* setBreakpointByUrl once Debugger.setBreakpointByUrl has answered with the
\* breakpoint id b and the locations it resolved so far
SetBreakpointByUrlDone(b, locations) ==
  /\ \E s \in Sockets : delivers(s)
  /\ breakpoints' = addBreakpoint(breakpoints, b, locations)
  /\ quietTurn
  /\ UNCHANGED <<sessionVars, exceptBp>>

\* setBreakpoint once Debugger.setBreakpoint has answered with the id b and
\* the actual location
SetBreakpointDone(b, actualLocation) ==
  /\ \E s \in Sockets : delivers(s)
  /\ breakpoints' = addBreakpoint(breakpoints, b, <<actualLocation>>)
  /\ quietTurn
  /\ UNCHANGED <<sessionVars, exceptBp>>

\* removeBreakpoint once Debugger.removeBreakpoint has answered
RemoveBreakpointDone(b) ==
  /\ \E s \in Sockets : delivers(s)
  /\ breakpoints' = removeBreakpoint(breakpoints, b)
  /\ quietTurn
  /\ UNCHANGED <<sessionVars, exceptBp>>

\* enableDebugger / disableDebugger once Debugger.enable / Debugger.disable
\* has answered: DebugState.setEnabled(e)
SetEnabledDone(e) ==
  /\ \E s \in Sockets : delivers(s)
  /\ enabled' = e
  /\ pauseState' = setEnabled(pauseState, e)
  /\ breakpoints' = setEnabledBreakpoints(breakpoints, e)
  /\ returned' = Empty
  /\ discarded' = {}
  /\ lastTurn' = IF e THEN "enabled" ELSE "disabled"
  /\ UNCHANGED <<socketVars, transportVars, listeners, nCalls, calls, exceptBp>>

\* the Debugger.breakpointResolved frame
BreakpointResolvedEvent(s, b, location) ==
  /\ delivers(s)
  /\ breakpoints' = updateBreakpointLocations(breakpoints, b, <<location>>)
  /\ returned' = Empty
  /\ discarded' = {}
  /\ lastTurn' = "breakpointResolved"
  /\ UNCHANGED <<sessionVars, exceptBp>>

\* ---- NetworkState: the event, the tool and the facade continuations ----
\* the Network.requestWillBeSent frame
RequestWillBeSentEvent(s, id) ==
  /\ delivers(s)
  /\ Len(netLog) < MaxNetLog
  /\ netRequests' = onRequestWillBeSent(netRequests, maxRequests, id)
  /\ netLog' = Append(netLog, id)
  /\ quietTurn
  /\ UNCHANGED <<sessionVars, maxRequests, netEnabled, netCapChanged, exceptNet>>

\* NetworkState.setMaxRequests
SetMaxRequests(max) ==
  /\ maxRequests' = max
  /\ netCapChanged' = (netCapChanged \/ netLog # <<>>)
  /\ quietTurn
  /\ UNCHANGED <<sessionVars, netRequests, netEnabled, netLog, exceptNet>>

\* the clear_requests tool: NetworkState.clear
ClearRequests ==
  /\ netRequests' = clearRequests
  /\ netLog' = <<>>
  /\ netCapChanged' = FALSE
  /\ quietTurn
  /\ UNCHANGED <<sessionVars, maxRequests, netEnabled, exceptNet>>

\* enableNetwork / disableNetwork once Network.enable / Network.disable has
\* answered: NetworkState.setEnabled(e)
SetNetworkEnabledDone(e) ==
  /\ \E s \in Sockets : delivers(s)
  /\ netEnabled' = e
  /\ netRequests' = setEnabledRequests(netRequests, e)
  /\ netLog' = IF e THEN netLog ELSE <<>>
  /\ netCapChanged' = (e /\ netCapChanged)
  /\ quietTurn
  /\ UNCHANGED <<sessionVars, maxRequests, exceptNet>>

\* ---- FetchInterceptor: the rule tools, the event and the dispatch tools ----
\* a turn that sends no Fetch request and runs no dispatch tool
noDispatch ==
  /\ fetchSent' = <<>>
  /\ toolResult' = "none"
  /\ dispatching' = dispatching

\* the add_intercept_rule tool: addRule
AddRule(rule) ==
  /\ ruleIdCounter < MaxRules
  /\ LET a == addRule(rules, ruleIdCounter, rule) IN
       /\ rules' = a.rules
       /\ ruleIdCounter' = a.ruleIdCounter
       /\ ruleIdLog' = Append(ruleIdLog, a.id)
  /\ noDispatch
  /\ quietTurn
  /\ UNCHANGED <<sessionVars, pausedRequests, fetchEnabled, exceptFetch>>

\* removeRule
RemoveRule(n) ==
  /\ rules' = removeRule(rules, ruleId(n))
  /\ noDispatch
  /\ quietTurn
  /\ UNCHANGED <<sessionVars, ruleIdCounter, ruleIdLog, pausedRequests,
                 fetchEnabled, exceptFetch>>

\* clearRules
ClearRules ==
  /\ rules' = clearRules
  /\ noDispatch
  /\ quietTurn
  /\ UNCHANGED <<sessionVars, ruleIdCounter, ruleIdLog, pausedRequests,
                 fetchEnabled, exceptFetch>>

\* enableRule
EnableRule(n, e) ==
  /\ rules' = enableRule(rules, ruleId(n), e)
  /\ noDispatch
  /\ quietTurn
  /\ UNCHANGED <<sessionVars, ruleIdCounter, ruleIdLog, pausedRequests,
                 fetchEnabled, exceptFetch>>

\* updateRule
UpdateRule(n, updates) ==
  /\ rules' = updateRule(rules, ruleId(n), updates)
  /\ noDispatch
  /\ quietTurn
  /\ UNCHANGED <<sessionVars, ruleIdCounter, ruleIdLog, pausedRequests,
                 fetchEnabled, exceptFetch>>

\* the Fetch.requestPaused frame, delivered by a socket: onRequestPaused,
\* then the emit
RequestPausedEvent(id, url, resourceType) ==
  /\ \E s \in Sockets : delivers(s)
  /\ UNCHANGED <<sessionVars, rules, ruleIdCounter, ruleIdLog, fetchEnabled,
                 exceptFetch>>
  /\ noDispatch
  /\ quietTurn
  /\ pausedRequests' =
       onRequestPaused(pausedRequests, rules,
                       FetchRequestPaused(id, url, resourceType))

\* enableFetch / disableFetch once Fetch.enable / Fetch.disable has answered
SetFetchEnabledDone(e) ==
  /\ \E s \in Sockets : delivers(s)
  /\ fetchEnabled' = e
  /\ pausedRequests' = setEnabledPaused(pausedRequests, e)
  /\ noDispatch
  /\ quietTurn
  /\ UNCHANGED <<sessionVars, rules, ruleIdCounter, ruleIdLog, exceptFetch>>

\* no dispatch is awaiting its Fetch request
NoDispatching == [pending |-> FALSE, method |-> "none", requestId |-> "none"]

\* a dispatch tool up to the await of its Fetch request: the tool looks the
\* request up, the facade sends
DispatchIssue(method, id) ==
  /\ ~dispatching.pending
  /\ IF getPausedRequest(pausedRequests, id) = undefined
       THEN /\ toolResult' = "Request not found in paused requests"
            /\ fetchSent' = <<>>
            /\ dispatching' = dispatching
     ELSE IF ~sendAccepted(ws, connected)
       THEN /\ toolResult' = "Not connected to Chrome"
            /\ fetchSent' = <<>>
            /\ dispatching' = dispatching
     ELSE /\ toolResult' = "pending"
          /\ fetchSent' = <<[method |-> method, requestId |-> id]>>
          /\ dispatching' = [pending |-> TRUE, method |-> method,
                              requestId |-> id]
  /\ quietTurn
  /\ UNCHANGED <<sessionVars, rules, ruleIdCounter, ruleIdLog, pausedRequests,
                 fetchEnabled, exceptFetch>>

\* the promise of the awaited Fetch request settles: with the result of the
\* browser, or with a protocol error, a timeout or the error of a closed
\* connection
DispatchSettled(outcome) ==
  /\ dispatching.pending
  /\ outcome = "result" => sendAccepted(ws, connected) /\ delivers(ws)
  /\ IF outcome = "result"
       THEN /\ toolResult' = "success"
            /\ pausedRequests' =
                 removePausedRequest(pausedRequests, dispatching.requestId)
       ELSE /\ toolResult' = "error"
            /\ UNCHANGED pausedRequests
  /\ fetchSent' = <<>>
  /\ dispatching' = NoDispatching
  /\ quietTurn
  /\ UNCHANGED <<sessionVars, rules, ruleIdCounter, ruleIdLog, fetchEnabled,
                 exceptFetch>>

\* continue_request, fulfill_request and fail_request, from the call of the
\* tool to its return. The tool looks the request up first; the facade sends
\* the request and removes the entry once the send has resolved. The send
\* throws when there is no connection, and rejects on a protocol error, a
\* timeout or a disconnect.
DispatchTool(method, id, outcome) ==
  /\ IF getPausedRequest(pausedRequests, id) = undefined
       THEN /\ toolResult' = "Request not found in paused requests"
            /\ fetchSent' = <<>>
            /\ UNCHANGED pausedRequests
     ELSE IF ~sendAccepted(ws, connected)
       THEN /\ toolResult' = "Not connected to Chrome"
            /\ fetchSent' = <<>>
            /\ UNCHANGED pausedRequests
     ELSE IF outcome = "result" /\ (\E s \in Sockets : delivers(s))
       THEN /\ toolResult' = "success"
            /\ fetchSent' = <<[method |-> method, requestId |-> id]>>
            /\ pausedRequests' = removePausedRequest(pausedRequests, id)
     ELSE /\ toolResult' = "error"
          /\ fetchSent' = <<[method |-> method, requestId |-> id]>>
          /\ UNCHANGED pausedRequests
  /\ quietTurn
  /\ UNCHANGED <<sessionVars, rules, ruleIdCounter, ruleIdLog, fetchEnabled,
                 dispatching, exceptFetch>>

\* ---- ConsoleState: the events, the tool and the facade continuations ----
\* the Runtime.consoleAPICalled frame
ConsoleAPICalledEvent(s, params) ==
  /\ delivers(s)
  /\ messageIdCounter < MaxMsgIds
  /\ messageIdCounter' = messageIdCounter + 1
  /\ messages' = addMessage(messages, maxMessages,
                            CollectedConsoleMessage(messageIdCounter + 1, params))
  /\ quietTurn
  /\ UNCHANGED <<sessionVars, exceptions, consoleEnabled, maxMessages,
                 exceptionIdCounter, exceptConsole>>

\* the Runtime.exceptionThrown frame
ExceptionThrownEvent(s, details) ==
  /\ delivers(s)
  /\ exceptionIdCounter < MaxMsgIds
  /\ exceptionIdCounter' = exceptionIdCounter + 1
  /\ exceptions' = addMessage(exceptions, maxMessages,
                              CollectedException(exceptionIdCounter + 1, details))
  /\ quietTurn
  /\ UNCHANGED <<sessionVars, messages, consoleEnabled, maxMessages,
                 messageIdCounter, exceptConsole>>

\* ConsoleState.setMaxMessages
SetMaxMessages(max) ==
  /\ maxMessages' = max
  /\ messages' = trim(messages, max)
  /\ exceptions' = trim(exceptions, max)
  /\ quietTurn
  /\ UNCHANGED <<sessionVars, consoleEnabled, messageIdCounter,
                 exceptionIdCounter, exceptConsole>>

\* the clear_console tool: ConsoleState.clear
ClearConsole ==
  /\ messages' = clearConsole
  /\ exceptions' = clearConsole
  /\ quietTurn
  /\ UNCHANGED <<sessionVars, consoleEnabled, maxMessages, messageIdCounter,
                 exceptionIdCounter, exceptConsole>>

\* enableRuntime / disableRuntime once Runtime.enable / Runtime.disable has
\* answered: ConsoleState.setEnabled(e)
SetConsoleEnabledDone(e) ==
  /\ \E s \in Sockets : delivers(s)
  /\ consoleEnabled' = e
  /\ messages' = setEnabledConsole(messages, e)
  /\ exceptions' = setEnabledConsole(exceptions, e)
  /\ quietTurn
  /\ UNCHANGED <<sessionVars, maxMessages, messageIdCounter,
                 exceptionIdCounter, exceptConsole>>

\* ---- the message of a console call, built apart from the store ----
NoConsole == [asked |-> FALSE, params |-> ConsoleParams("log", <<>>),
              msg |-> CollectedConsoleMessage(0, ConsoleParams("log", <<>>))]

\* onConsoleAPICalled builds the message of one console call; the handler is
\* synchronous, so one message is built before the next
BuildMessage(params) ==
  /\ ~lastConsole.asked
  /\ lastConsole' = [asked |-> TRUE, params |-> params,
                     msg |-> CollectedConsoleMessage(1, params)]
  /\ quietTurn
  /\ UNCHANGED <<sessionVars, exceptText>>

\* the message is handed to addMessage
BuildReturn ==
  /\ lastConsole.asked
  /\ lastConsole' = NoConsole
  /\ quietTurn
  /\ UNCHANGED <<sessionVars, exceptText>>

\* ---- pattern queries ----
\* no query was made yet
NoMatch ==
  [asked |-> FALSE, url |-> <<>>, pattern |-> <<>>, fetch |-> FALSE,
   network |-> Returned(<<>>), script |-> Returned(FALSE),
   scripts |-> Returned(<<>>)]

\* one url is matched against one pattern by each user of the pattern
\* language: the rule engine, the request store holding a request with that
\* url, and the script registry holding a script with that url. The queries
\* are synchronous, so one is answered before the next is made.
MatchQuery(url, pattern) ==
  /\ ~lastMatch.asked
  /\ lastMatch' = [asked |-> TRUE, url |-> url, pattern |-> pattern,
                   fetch |-> matchesPattern(url, pattern),
                   network |-> getRequestsByUrl(<<url>>, pattern),
                   script |-> matchesUrl(url, pattern),
                   scripts |-> findScriptsByUrlPattern(<<url>>, pattern)]
  /\ quietTurn
  /\ UNCHANGED <<sessionVars, exceptPat>>

\* the answers are handed to the caller
MatchReturn ==
  /\ lastMatch.asked
  /\ lastMatch' = NoMatch
  /\ quietTurn
  /\ UNCHANGED <<sessionVars, exceptPat>>

\* ---- the script registry and getScriptSource ----
\* Debugger.scriptParsed: the handler adds the script
ScriptParsedEvent(s, script) ==
  /\ delivers(s)
  /\ LET R == addScript(Registry, script)
     IN /\ scripts' = R.scripts
        /\ urlToScriptIds' = R.urlToScriptIds
        /\ sourceCache' = R.sourceCache
  /\ UNCHANGED <<sourceCalls, nSourceCalls, lastSource>>
  /\ quietTurn
  /\ UNCHANGED <<sessionVars, exceptScript>>

\* getScriptSource up to its await: a truthy cached source is returned;
\* otherwise Debugger.getScriptSource is sent, or the send throws
GetScriptSource(scriptId) ==
  /\ nSourceCalls < MaxSourceCalls
  /\ nSourceCalls' = nSourceCalls + 1
  /\ LET cached == getSource(Registry, scriptId)
         call == [call |-> nSourceCalls', scriptId |-> scriptId,
                  sent |-> FALSE, outcome |-> "none", returned |-> <<>>]
     IN IF cachedIsTruthy(cached)
          THEN /\ lastSource' = [call EXCEPT !.outcome = "returned",
                                             !.returned = cached]
               /\ sourceCalls' = sourceCalls
          ELSE IF sendAccepted(ws, connected) /\ ~wsSendThrows(sockState, ws)
            THEN /\ lastSource' = [call EXCEPT !.sent = TRUE,
                                               !.outcome = "awaiting"]
                 /\ sourceCalls' = (nSourceCalls' :> scriptId) @@ sourceCalls
            ELSE /\ lastSource' = [call EXCEPT !.outcome = "threw"]
                 /\ sourceCalls' = sourceCalls
  /\ UNCHANGED <<scripts, urlToScriptIds, sourceCache>>
  /\ quietTurn
  /\ UNCHANGED <<sessionVars, exceptScript>>

\* Debugger.getScriptSource has answered with the source of the script: the
\* source is cached and returned
SourceResolved(c) ==
  /\ c \in DOMAIN sourceCalls
  /\ ws # 0 /\ delivers(ws)
  /\ LET id == sourceCalls[c]
         R == setSource(Registry, id, SourceOf(id))
     IN /\ sourceCache' = R.sourceCache
        /\ lastSource' = [call |-> c, scriptId |-> id, sent |-> FALSE,
                          outcome |-> "returned",
                          returned |-> <<SourceOf(id)>>]
  /\ sourceCalls' = Restrict(sourceCalls, DOMAIN sourceCalls \ {c})
  /\ UNCHANGED <<scripts, urlToScriptIds, nSourceCalls>>
  /\ quietTurn
  /\ UNCHANGED <<sessionVars, exceptScript>>

\* Debugger.getScriptSource has failed or timed out: the call throws
SourceRejected(c) ==
  /\ c \in DOMAIN sourceCalls
  /\ lastSource' = [call |-> c, scriptId |-> sourceCalls[c], sent |-> FALSE,
                    outcome |-> "threw", returned |-> <<>>]
  /\ sourceCalls' = Restrict(sourceCalls, DOMAIN sourceCalls \ {c})
  /\ UNCHANGED <<scripts, urlToScriptIds, sourceCache, nSourceCalls>>
  /\ quietTurn
  /\ UNCHANGED <<sessionVars, exceptScript>>

\* ---- the frame of a fulfilment ----
\* fulfill_request with a text body
FulfillRequestTool(body) ==
  /\ fulfillFrame' = [tool |-> "fulfill_request", given |-> body,
                      params |-> fulfillRequestTool(body)]
  /\ quietTurn
  /\ UNCHANGED <<sessionVars, exceptFrame>>

\* fulfill_request_with_file with the content of the file it read
FulfillRequestWithFile(fileContent) ==
  /\ fulfillFrame' = [tool |-> "fulfill_request_with_file",
                      given |-> fileContent,
                      params |-> fulfillRequestWithFile(fileContent)]
  /\ quietTurn
  /\ UNCHANGED <<sessionVars, exceptFrame>>

Init ==
  /\ ws = 0
  /\ connected = FALSE
  /\ requestId = 0
  /\ pendingRequests = Empty
  /\ timers = {}
  /\ settled = [r \in Ids |-> 0]
  /\ sockState = [s \in Sockets |-> "unused"]
  /\ connTimer = {}
  /\ wire = [s \in Sockets |-> {}]
  /\ written = {}
  /\ pauseState = Running
  /\ enabled = FALSE
  /\ listeners = {}
  /\ nCalls = 0
  /\ calls = Empty
  /\ returned = Empty
  /\ discarded = {}
  /\ lastTurn = "other"
  /\ breakpoints = Empty
  /\ netRequests = <<>>
  /\ maxRequests = MaxCap
  /\ netEnabled = FALSE
  /\ netLog = <<>>
  /\ netCapChanged = FALSE
  /\ lastMatch = NoMatch
  /\ rules = <<>>
  /\ ruleIdCounter = 0
  /\ ruleIdLog = <<>>
  /\ pausedRequests = Empty
  /\ fetchEnabled = FALSE
  /\ fetchSent = <<>>
  /\ toolResult = "none"
  /\ messages = <<>>
  /\ exceptions = <<>>
  /\ consoleEnabled = FALSE
  /\ maxMessages = MaxCap
  /\ messageIdCounter = 0
  /\ exceptionIdCounter = 0
  /\ lastConsole = NoConsole
  /\ detect = NoDetection
  /\ dispatching = NoDispatching
  /\ scripts = Empty
  /\ urlToScriptIds = Empty
  /\ sourceCache = Empty
  /\ sourceCalls = Empty
  /\ nSourceCalls = 0
  /\ lastSource = NoSourceCall
  /\ fulfillFrame = NoFulfill

Next ==
  \/ Connect
  \/ \E s \in Sockets : SockOpen(s)
  \/ \E s \in Sockets : SockError(s)
  \/ \E s \in Sockets : ConnectTimeout(s)
  \/ \E s \in Sockets : SockClose(s)
  \/ Disconnect
  \/ Evaluate
  \/ EvaluateOnCallFrame
  \/ Pause
  \/ EnableDebugger
  \/ DisableDebugger
  \/ \E s \in Sockets, r \in Ids : Response(s, r, "protocol error", <<"none">>)
  \/ \E s \in Sockets, r \in Ids : Response(s, r, "result", ResultOf(r))
  \/ \E s \in Sockets, p \in PausedParams : PausedEvent(s, p)
  \/ \E s \in Sockets : ResumedEvent(s)
  \/ \E r \in Ids : Timeout(r)

Spec == Init /\ [][Next]_vars

\* the event loop runs every request timer that stays armed
FairSpec == Spec /\ \A r \in Ids : WF_vars(Timeout(r))

\* DebugState with its breakpoints: the debugger is enabled and disabled,
\* pauses and resumes, and breakpoints are set, resolved and removed, on a
\* connection that answers every request
BpNext ==
  \/ Connect
  \/ \E s \in Sockets : SockOpen(s)
  \/ Disconnect
  \/ \E e \in BOOLEAN : SetEnabledDone(e)
  \/ \E s \in Sockets, p \in PausedParams : PausedEvent(s, p)
  \/ \E s \in Sockets : ResumedEvent(s)
  \/ \E b \in BpIds, ls \in LocLists : SetBreakpointByUrlDone(b, ls)
  \/ \E b \in BpIds, l \in Locs : SetBreakpointDone(b, l)
  \/ \E b \in BpIds : RemoveBreakpointDone(b)
  \/ \E s \in Sockets, b \in BpIds, l \in Locs : BreakpointResolvedEvent(s, b, l)

BpSpec == Init /\ [][BpNext]_vars

\* NetworkState: requests are collected, the cap is set, the store is cleared
NetNext ==
  \/ Connect
  \/ \E s \in Sockets : SockOpen(s)
  \/ Disconnect
  \/ \E s \in Sockets, id \in NetIds : RequestWillBeSentEvent(s, id)
  \/ \E max \in Caps : SetMaxRequests(max)
  \/ ClearRequests
  \/ \E e \in BOOLEAN : SetNetworkEnabledDone(e)

NetSpec == Init /\ [][NetNext]_vars

\* the pattern language: every url is matched against every pattern
PatNext ==
  \/ \E url \in Urls, pattern \in Patterns : MatchQuery(url, pattern)
  \/ MatchReturn

PatSpec == Init /\ [][PatNext]_vars

\* the rule table of FetchInterceptor: rules are added, removed, cleared and
\* toggled, and reset() starts over; none of this needs a connection
RuleNext ==
  \/ Disconnect
  \/ \E rule \in RuleInputs \cup MoreRuleInputs : AddRule(rule)
  \/ \E n \in 1..MaxRules : RemoveRule(n)
  \/ ClearRules
  \/ \E n \in 1..MaxRules, e \in BOOLEAN : EnableRule(n, e)
  \/ \E n \in 1..MaxRules, u \in RuleUpdates : UpdateRule(n, u)

RuleSpec == Init /\ [][RuleNext]_vars

\* the paused table of FetchInterceptor: the browser pauses requests while
\* rules are being added
PausedNext ==
  \/ Connect
  \/ \E s \in Sockets : SockOpen(s)
  \/ Disconnect
  \/ \E rule \in RuleInputs : AddRule(rule)
  \/ \E id \in FetchIds, url \in FetchUrls, t \in ResourceTypes :
       RequestPausedEvent(id, url, t)

PausedSpec == Init /\ [][PausedNext]_vars

\* the dispatch of paused requests: requests are paused, the caller continues,
\* fulfills or fails them, interception is switched on and off, and the
\* connection may drop
DispatchNext ==
  \/ Connect
  \/ \E s \in Sockets : SockOpen(s)
  \/ \E s \in Sockets : SockClose(s)
  \/ Disconnect
  \/ \E id \in FetchIds, url \in FetchUrls, t \in ResourceTypes :
       RequestPausedEvent(id, url, t)
  \/ \E e \in BOOLEAN : SetFetchEnabledDone(e)
  \/ \E m \in DispatchMethods, id \in FetchIds, o \in {"result", "error"} :
       DispatchTool(m, id, o)

DispatchSpec == Init /\ [][DispatchNext]_vars

\* the dispatch of paused requests with its await: between the sending of the
\* Fetch request and its answer the browser pauses further requests, the
\* connection closes and the session disconnects
AwaitNext ==
  \/ Connect
  \/ \E s \in Sockets : SockOpen(s)
  \/ \E s \in Sockets : SockClose(s)
  \/ Disconnect
  \/ \E id \in FetchIds : RequestPausedEvent(id, <<"a">>, "XHR")
  \/ \E m \in DispatchMethods, id \in FetchIds : DispatchIssue(m, id)
  \/ \E o \in {"result", "error"} : DispatchSettled(o)

AwaitSpec == Init /\ [][AwaitNext]_vars

\* evaluate() calls racing against the pauses of the page, with the debugger
\* switched on and off
RaceNext ==
  \/ Connect
  \/ \E s \in Sockets : SockOpen(s)
  \/ \E e \in BOOLEAN : SetEnabledDone(e)
  \/ Evaluate
  \/ \E s \in Sockets, r \in Ids : Response(s, r, "result", ResultOf(r))
  \/ \E s \in Sockets, p \in PausedParams : PausedEvent(s, p)
  \/ \E s \in Sockets : ResumedEvent(s)

RaceSpec == Init /\ [][RaceNext]_vars

\* the script registry: scripts are parsed, sources are asked for, the session
\* is disconnected
ScriptNext ==
  \/ Connect
  \/ \E s \in Sockets : SockOpen(s)
  \/ Disconnect
  \/ \E s \in Sockets, script \in PageScripts : ScriptParsedEvent(s, script)
  \/ \E id \in ScriptIds : GetScriptSource(id)
  \/ \E c \in 1..MaxSourceCalls : SourceResolved(c)
  \/ \E c \in 1..MaxSourceCalls : SourceRejected(c)

ScriptSpec == Init /\ [][ScriptNext]_vars

\* the body of a fulfilment: every text and every file content is fulfilled
FulfillNext ==
  \/ \E body \in Texts : FulfillRequestTool(body)
  \/ \E fileContent \in FileContents : FulfillRequestWithFile(fileContent)

FulfillSpec == Init /\ [][FulfillNext]_vars

\* ConsoleState: messages and exceptions are collected, the cap is set, the
\* store is cleared
ConsoleNext ==
  \/ Connect
  \/ \E s \in Sockets : SockOpen(s)
  \/ Disconnect
  \/ \E s \in Sockets, params \in PageConsoleParams :
       ConsoleAPICalledEvent(s, params)
  \/ \E s \in Sockets, details \in PageExceptions :
       ExceptionThrownEvent(s, details)
  \/ \E max \in Caps : SetMaxMessages(max)
  \/ ClearConsole
  \/ \E e \in BOOLEAN : SetConsoleEnabledDone(e)

ConsoleSpec == Init /\ [][ConsoleNext]_vars

\* the text and the level of console messages: every console call is turned
\* into its message
TextNext ==
  \/ \E params \in AllConsoleParams : BuildMessage(params)
  \/ BuildReturn

TextSpec == Init /\ [][TextNext]_vars

\* ---- withBreakpointDetection: the call, its operation and its window ----
\* a turn of the detection call: nothing else of the session moves
detectionTurn ==
  /\ quietTurn
  /\ UNCHANGED <<sessionVars, exceptDetect>>

\* a caller wraps an operation in withBreakpointDetection
DetectionCall ==
  /\ detect.pc \in {"idle", "returned"}
  /\ detect' = withBreakpointDetection(pauseState, enabled)
  /\ detectionTurn

\* the response of the operation arrives and its promise resolves
OperationResolved(result) ==
  /\ \E s \in Sockets : delivers(s)
  /\ detect.pc \in {"plain", "op"}
  /\ detect' = onOperationResolved(detect, result)
  /\ detectionTurn

\* the promise of the operation rejects
OperationRejected ==
  /\ detect.pc \in {"plain", "op"}
  /\ detect' = onOperationRejected(detect)
  /\ detectionTurn

\* the timer of the detection window fires
WindowElapsed ==
  /\ detect.pc = "window"
  /\ detect' = onWindowElapsed(detect, pauseState)
  /\ detectionTurn

\* operations wrapped in withBreakpointDetection while the debugger is
\* switched on and off and the page pauses and resumes
DetectionNext ==
  \/ Connect
  \/ \E s \in Sockets : SockOpen(s)
  \/ Disconnect
  \/ \E e \in BOOLEAN : SetEnabledDone(e)
  \/ \E s \in Sockets, p \in PausedParams : PausedEvent(s, p)
  \/ \E s \in Sockets : ResumedEvent(s)
  \/ DetectionCall
  \/ \E result \in DetectionResults : OperationResolved(result)
  \/ OperationRejected
  \/ WindowElapsed

DetectionSpec == Init /\ [][DetectionNext]_vars

\* the rule the callers of this section add
ProjRule ==
  [pattern |-> <<"*">>, resourceTypes |-> Absent, action |-> "pause",
   enabled |-> "undefined"]

\* ---- what callers can do with the results of the queries ----
\* getRule hands out the object the table stores: an assignment the caller
\* makes to a field of the result is an assignment to the stored rule
writeReturnedRule(R, id, e) ==
  [i \in DOMAIN R |-> IF R[i].id = id THEN [R[i] EXCEPT !.enabled = e] ELSE R[i]]

\* getAllRules hands out a new array of the stored objects: an assignment to
\* a field of an element is an assignment to the stored rule
writeListedRule(R, i, e) == [R EXCEPT ![i].enabled = e]

\* a push to the array getAllRules returned changes that array only
pushListedRules(R, rule) == R

\* the caller writes to the rule getRule(rule-n) returned
WriteReturnedRule(n, e) ==
  /\ \E i \in DOMAIN rules : rules[i].id = ruleId(n)
  /\ rules' = writeReturnedRule(rules, ruleId(n), e)
  /\ noDispatch
  /\ lastTurn' = "callerWrote"
  /\ returned' = Empty
  /\ discarded' = {}
  /\ UNCHANGED <<sessionVars, ruleIdCounter, ruleIdLog, pausedRequests,
                 fetchEnabled, exceptFetch>>

\* the caller writes to element i of the array getAllRules() returned
WriteListedRule(i, e) ==
  /\ i \in DOMAIN getAllRules(rules)
  /\ rules' = writeListedRule(rules, i, e)
  /\ noDispatch
  /\ lastTurn' = "callerWrote"
  /\ returned' = Empty
  /\ discarded' = {}
  /\ UNCHANGED <<sessionVars, ruleIdCounter, ruleIdLog, pausedRequests,
                 fetchEnabled, exceptFetch>>

\* the caller pushes a rule to the array getAllRules() returned
PushListedRules(rule) ==
  /\ rules' = pushListedRules(rules, rule)
  /\ noDispatch
  /\ lastTurn' = "callerPushed"
  /\ returned' = Empty
  /\ discarded' = {}
  /\ UNCHANGED <<sessionVars, ruleIdCounter, ruleIdLog, pausedRequests,
                 fetchEnabled, exceptFetch>>

\* callers of the rule queries that write to what they were given
CallerNext ==
  \/ \E rule \in RuleInputs : AddRule(rule)
  \/ \E n \in 1..MaxRules : RemoveRule(n)
  \/ \E n \in 1..MaxRules, e \in BOOLEAN : WriteReturnedRule(n, e)
  \/ \E i \in 1..MaxRules, e \in BOOLEAN : WriteListedRule(i, e)
  \/ PushListedRules(ProjRule)

CallerSpec == Init /\ [][CallerNext]_vars

\* the four projections side by side on one session: each domain is switched
\* on and off and each receives its event, and the session disconnects and
\* connects again
ProjPaused == [reason |-> "breakpoint", callFrames |-> <<"f1">>]
ProjConsole == ConsoleParams("log", <<RemoteObject("string", Str("a"), <<>>)>>)

ProjNext ==
  \/ Connect
  \/ \E s \in Sockets : SockOpen(s)
  \/ Disconnect
  \/ \E e \in BOOLEAN : SetEnabledDone(e)
  \/ \E e \in BOOLEAN : SetNetworkEnabledDone(e)
  \/ \E e \in BOOLEAN : SetConsoleEnabledDone(e)
  \/ \E e \in BOOLEAN : SetFetchEnabledDone(e)
  \/ \E s \in Sockets : PausedEvent(s, ProjPaused)
  \/ SetBreakpointDone(1, 1)
  \/ \E s \in Sockets :
       Len(netLog) < MaxProjEvents /\ RequestWillBeSentEvent(s, 1)
  \/ \E s \in Sockets :
       messageIdCounter < MaxProjEvents /\ ConsoleAPICalledEvent(s, ProjConsole)
  \/ ruleIdCounter < MaxProjEvents /\ AddRule(ProjRule)
  \/ RequestPausedEvent("req-1", <<"a">>, "XHR")

ProjSpec == Init /\ [][ProjNext]_vars

\* the events of the four domains while the domains are switched on and off
EventNext ==
  \/ Connect
  \/ \E s \in Sockets : SockOpen(s)
  \/ \E e \in BOOLEAN : SetEnabledDone(e)
  \/ \E e \in BOOLEAN : SetNetworkEnabledDone(e)
  \/ \E e \in BOOLEAN : SetConsoleEnabledDone(e)
  \/ \E e \in BOOLEAN : SetFetchEnabledDone(e)
  \/ \E s \in Sockets : PausedEvent(s, ProjPaused)
  \/ \E s \in Sockets :
       Len(netLog) < MaxProjEvents /\ RequestWillBeSentEvent(s, 1)
  \/ \E s \in Sockets :
       messageIdCounter < MaxProjEvents /\ ConsoleAPICalledEvent(s, ProjConsole)
  \/ RequestPausedEvent("req-1", <<"a">>, "XHR")

EventSpec == Init /\ [][EventNext]_vars

\* ---- properties ----
\* the call issued in this step, if one was
issuedOp ==
  IF nCalls' = nCalls THEN "none"
  ELSE IF nCalls' \in DOMAIN returned' THEN returned'[nCalls'].op
  ELSE IF nCalls' \in DOMAIN calls' THEN calls'[nCalls'].op
  ELSE "none"

\* C1: a send whose frame was written is completed exactly once: while its
\* slot is registered nothing has completed it and its timer is armed; once
\* the slot is gone exactly one of result, protocol error, timeout and
\* disconnect error has completed it, and never a second one.
C1_CompletedExactlyOnce ==
  \A r \in written :
    /\ settled[r] <= 1
    /\ (r \in DOMAIN pendingRequests) <=> (settled[r] = 0)
    /\ (r \in DOMAIN pendingRequests) <=> (r \in timers)

C1_Witness ==
  Cardinality({r \in written :
                 settled[r] = 1 /\ r \notin DOMAIN pendingRequests}) >= 2

\* C2: evaluate() while paused throws PausedError carrying the pause reason
\* and makes no CDP call: no id is allocated, no frame is written and no
\* pending slot or timer is registered.
C2_EvaluateWhilePaused ==
  [][ (issuedOp = "evaluate" /\ isPaused(pauseState)) =>
        /\ nCalls' \in DOMAIN returned'
        /\ returned'[nCalls'].err = "PausedError"
        /\ returned'[nCalls'].pauseReason = pauseState.reason
        /\ UNCHANGED <<requestId, wire, written, pendingRequests, timers>>
    ]_vars

C2_Witness ==
  \E c \in DOMAIN returned :
    /\ returned[c].op = "evaluate"
    /\ returned[c].err = "PausedError"
    /\ returned[c].pauseReason = "breakpoint"
    /\ connected

\* C3: when a Debugger.paused event is delivered while an evaluate() that
\* races (debugger enabled, not paused at the call) is outstanding, the call
\* returns in that turn with paused = true and the reason and call frames of
\* the event, while its Runtime.evaluate request is still unanswered.
C3_PauseWinsRace ==
  [][ \A c \in DOMAIN calls :
        (calls[c].op = "evaluate" /\ calls[c].pc = "race"
           /\ lastTurn' = "paused") =>
          /\ c \in DOMAIN returned'
          /\ returned'[c].paused
          /\ returned'[c].pauseReason = getReason(pauseState')
          /\ returned'[c].callFrames = getCallFrames(pauseState')
          /\ returned'[c].callFrames # <<>>
          /\ calls[c].req \in DOMAIN pendingRequests'
    ]_vars

C3_Witness ==
  \E c \in DOMAIN returned :
    /\ returned[c].op = "evaluate"
    /\ returned[c].paused
    /\ returned[c].callFrames = <<"f2", "f1">>
    /\ returned[c].req \in DOMAIN pendingRequests

\* a written request whose slot is registered while no call waits for it:
\* the request of a call that returned because the pause won its race
Abandoned(r) ==
  /\ r \in written
  /\ r \in DOMAIN pendingRequests
  /\ callsOf(calls, {r}) = {}

\* the browser's answer to request r is handled in this step
answeredNow(r) == \E s \in Sockets : r \in wire[s] /\ r \notin wire'[s]

\* C4: the turn in which the pause wins leaves the pending table and the
\* timers as they are; the late response to such a request removes its slot
\* and its timer and returns nothing to any caller; and every such slot is
\* eventually released.
C4_LateResponseFreesSlot ==
  /\ [][ /\ lastTurn' = "paused" =>
              (pendingRequests' = pendingRequests /\ timers' = timers)
         /\ \A r \in Ids :
              (Abandoned(r) /\ answeredNow(r)) =>
                /\ r \notin DOMAIN pendingRequests'
                /\ r \notin timers'
                /\ settled'[r] = 1
                /\ returned' = Empty
     ]_vars
  /\ \A r \in Ids : Abandoned(r) ~> (r \notin DOMAIN pendingRequests)

C4_Witness ==
  \E r \in written :
    /\ <<r, "result">> \in discarded
    /\ r \notin DOMAIN pendingRequests
    /\ r \notin timers
    /\ connected

\* C5: a 'paused' handler is registered exactly for the calls that are still
\* waiting in their race: a call that has returned, whichever way, has left
\* no handler behind.
C5_ListenersOfRacingCalls ==
  listeners = {c \in DOMAIN calls : calls[c].pc = "race"}

C5_Witness ==
  /\ listeners = {}
  /\ \E c \in DOMAIN returned :
       /\ returned[c].op = "evaluateOnCallFrame"
       /\ returned[c].result = ResultOf(returned[c].req)

\* C6: evaluate() with the debugger disabled and not paused writes exactly
\* one Runtime.evaluate request and registers no handler; a pause event does
\* not make it return; the answer to its request makes it return that result
\* with paused = false.
C6_EvaluateDebuggerOff ==
  [][ /\ (issuedOp = "evaluate" /\ ~enabled /\ ~isPaused(pauseState)
            /\ sendAccepted(ws, connected) /\ sockState[ws] = "open") =>
           /\ requestId' = requestId + 1
           /\ DOMAIN pendingRequests' = DOMAIN pendingRequests \cup {requestId'}
           /\ pendingRequests'[requestId'].method = "Runtime.evaluate"
           /\ wire'[ws] = wire[ws] \cup {requestId'}
           /\ listeners' = listeners
           /\ nCalls' \in DOMAIN calls'
      /\ \A c \in DOMAIN calls :
           (calls[c].op = "evaluate" /\ calls[c].pc = "await") =>
             /\ lastTurn' = "paused" => c \in DOMAIN calls'
             /\ answeredNow(calls[c].req) =>
                  /\ c \in DOMAIN returned'
                  /\ requestId' = requestId
                  /\ returned'[c].err = "none" =>
                       /\ returned'[c].result = ResultOf(calls[c].req)
                       /\ ~returned'[c].paused
    ]_vars

C6_Witness ==
  \E c \in DOMAIN returned :
    /\ returned[c].op = "evaluate"
    /\ returned[c].req = 1
    /\ returned[c].result = ResultOf(1)
    /\ ~returned[c].paused

\* disconnect() on a held socket, or the close event of a socket
closedNow ==
  \/ ws # 0 /\ ws' = 0
  \/ \E s \in Sockets : sockState[s] # "closed" /\ sockState'[s] = "closed"

\* C7: disconnect() and a socket close reject every pending request, return a
\* connection-closed error to every waiting call, and leave no slot and no
\* armed timer; a timer is never armed for an id that has no slot.
C7_CloseFailsAllPending ==
  /\ [][ closedNow =>
           /\ pendingRequests' = Empty
           /\ timers' = {}
           /\ calls' = Empty
           /\ \A r \in DOMAIN pendingRequests : settled'[r] = settled[r] + 1
           /\ \A c \in DOMAIN calls :
                c \in DOMAIN returned' /\ returned'[c].err \in ClosedErrors
     ]_vars
  /\ [](timers \subseteq DOMAIN pendingRequests)

C7_Witness ==
  /\ pendingRequests = Empty
  /\ timers = {}
  /\ Cardinality({c \in DOMAIN returned :
                    returned[c].err = "Disconnected"}) >= 2

\* C8: disconnect() fails an outstanding Debugger.pause call with a
\* connection-closed error, and after that disconnect, with no socket held,
\* the next turn does not leave DebugState paused.
C8_NoPauseAfterDisconnect ==
  [][ /\ (ws # 0 /\ ws' = 0) =>
           \A c \in DOMAIN calls :
             calls[c].op = "pause" =>
               c \in DOMAIN returned' /\ returned'[c].err \in ClosedErrors
      /\ (ws = 0 /\ \E c \in DOMAIN returned :
                      /\ returned[c].op = "pause"
                      /\ returned[c].err \in ClosedErrors) =>
           ~isPaused(pauseState')
    ]_vars

\* a socket that disconnect() dropped and whose close event is still to come
dropped(s) == s # ws /\ sockState[s] = "closing"

\* C9: while the transport is not connected a call fails with 'Not connected'
\* and allocates no id, writes no frame and registers no slot; and once the
\* connect() made after a disconnect() has succeeded, sends stay accepted for
\* as long as the socket of that connect stays open and held.
C9_FailsUntilReconnected ==
  [][ /\ (issuedOp # "none" /\ ~sendAccepted(ws, connected)
            /\ ~(issuedOp = "evaluate" /\ isPaused(pauseState))) =>
           /\ nCalls' \in DOMAIN returned'
           /\ returned'[nCalls'].err = "Not connected"
           /\ UNCHANGED <<requestId, wire, written, pendingRequests, timers>>
      /\ (ws # 0 /\ sockState[ws] = "open" /\ connected
            /\ (\E s \in Sockets : dropped(s))
            /\ ws' = ws /\ sockState'[ws] = "open") =>
           sendAccepted(ws', connected')
    ]_vars

disabledNow ==
  \E c \in DOMAIN returned' :
    returned'[c].op = "disableDebugger" /\ returned'[c].err = "none"

C12_DisableResets ==
  [][ SetEnabledDone(FALSE) =>
        /\ ~enabled'
        /\ ~isPaused(pauseState')
        /\ getCallFrames(pauseState') = <<>>
        /\ getAllBreakpoints(breakpoints') = {}
    ]_vars

C12_Witness ==
  /\ lastTurn = "disabled"
  /\ ~isPaused(pauseState)
  /\ getAllBreakpoints(breakpoints) = {}
  /\ \E s \in Sockets : delivers(s)

\* the elements of a list
Range(q) == {q[i] : i \in DOMAIN q}

\* C13: a Debugger.breakpointResolved event for a managed breakpoint keeps
\* the locations known before and adds the resolved one; for an unknown id
\* it changes nothing.
C13_ResolvedAppends ==
  [][ \A s \in Sockets, b \in BpIds, l \in Locs :
        BreakpointResolvedEvent(s, b, l) =>
          IF b \in DOMAIN breakpoints
            THEN /\ DOMAIN breakpoints' = DOMAIN breakpoints
                 /\ Range(breakpoints[b]) \subseteq Range(breakpoints'[b])
                 /\ l \in Range(breakpoints'[b])
                 /\ \A o \in DOMAIN breakpoints \ {b} :
                      breakpoints'[o] = breakpoints[o]
            ELSE breakpoints' = breakpoints
    ]_vars

\* no element occurs twice in the list
distinct(q) == \A i, j \in DOMAIN q : i # j => q[i] # q[j]

\* the request ids of a list of records, in its order
requestIds(R) == [i \in DOMAIN R |-> R[i].requestId]

RECURSIVE globMatches(_, _)
globMatches(url, pattern) ==
  IF pattern = <<>> THEN url = <<>>
  ELSE IF Head(pattern) = "*"
    THEN \E k \in 0..Len(url) :
           globMatches(SubSeq(url, k + 1, Len(url)), Tail(pattern))
  ELSE /\ url # <<>>
       /\ Head(pattern) = "?" \/ Head(pattern) = Head(url)
       /\ globMatches(Tail(url), Tail(pattern))

\* a pattern written /re/
writtenAsRegex(pattern) ==
  Len(pattern) >= 2 /\ startsWith(pattern, "/") /\ endsWith(pattern, "/")

\* what a pattern matches as the three forms of the pattern language read it
patternMatches(url, pattern) ==
  IF pattern = <<"*">> THEN TRUE
  ELSE IF writtenAsRegex(pattern)
    THEN RegExp(slice1(pattern)).ok /\ test(RegExp(slice1(pattern)), url)
  ELSE globMatches(url, pattern)

\* C19: matchesPattern(url, pattern) is true for the pattern "*", is the
\* match of re for a pattern written /re/, and is the anchored glob match for
\* every other pattern.
\* Violated by the one-character pattern "/": it starts and ends with "/", so
\* it is compiled as the empty regular expression and matches every url.
C19_MatchesPattern ==
  lastMatch.asked =>
    lastMatch.fetch = patternMatches(lastMatch.url, lastMatch.pattern)

\* a /regex/ pattern whose regular expression does not compile
malformed(pattern) ==
  /\ startsWith(pattern, "/")
  /\ endsWith(pattern, "/")
  /\ ~RegExp(slice1(pattern)).ok

\* C20: a malformed /regex/ pattern matches nothing and raises nowhere: in
\* matchesPattern, getRequestsByUrl, matchesUrl and findScriptsByUrlPattern.
\* Violated: only matchesPattern catches the exception of the RegExp
\* constructor.
C20_MalformedMatchesNothing ==
  (lastMatch.asked /\ malformed(lastMatch.pattern)) =>
    /\ lastMatch.fetch = FALSE
    /\ lastMatch.network = Returned(<<>>)
    /\ lastMatch.script = Returned(FALSE)
    /\ lastMatch.scripts = Returned(<<>>)

\* C15: addRule never returns an id it returned before since the last
\* reset(): the ids logged since then are pairwise different, whatever was
\* removed or cleared in between.
C15_RuleIdsNeverReused == distinct(ruleIdLog)

\* a rule was added, removed, and another one added: the rule now in the
\* table has the second id
C15_Witness ==
  /\ Len(ruleIdLog) = 2
  /\ Len(rules) = 1
  /\ rules[1].id = ruleIdLog[2]
  /\ ruleIdLog[2] # ruleIdLog[1]

\* the rules findMatchingRule may return for a url and a resource type
eligible(rule, url, resourceType) ==
  /\ rule.enabled
  /\ \/ ~rule.resourceTypes.present
     \/ rule.resourceTypes.types = <<>>
     \/ \E i \in DOMAIN rule.resourceTypes.types :
          rule.resourceTypes.types[i] = resourceType
  /\ matchesPattern(url, rule.pattern)

\* C18: findMatchingRule returns the first rule in insertion order that is
\* enabled, whose type filter is absent, empty or contains the resource type
\* and whose pattern matches the url; nothing if there is none; never a
\* disabled rule.
C18_FirstEligibleRule ==
  \A url \in FetchUrls \cup {<<>>}, t \in ResourceTypes :
    LET found == findMatchingRule(getAllRules(rules), url, t)
        E == {i \in DOMAIN rules : eligible(rules[i], url, t)}
    IN /\ E = {} => found = undefined
       /\ E # {} => /\ \E i \in E : (\A j \in E : i <= j) /\ found = rules[i]
                    /\ found.enabled

\* a disabled catch-all stands before an enabled rule restricted to XHR: the
\* second rule is found for an XHR and nothing for a document
C18_Witness ==
  /\ Len(rules) = 2
  /\ ~rules[1].enabled /\ rules[1].pattern = <<"*">>
  /\ rules[2].enabled /\ rules[2].resourceTypes = Types(<<"XHR">>)
  /\ findMatchingRule(getAllRules(rules), <<"a">>, "XHR") = rules[2]
  /\ findMatchingRule(getAllRules(rules), <<"a">>, "Document") = undefined

\* C17: a Fetch.requestPaused event only records the request, together with
\* the rule findMatchingRule selects among the rules of that moment; it sends
\* no request, whatever the action of the matched rule, and changes neither
\* the rules nor the other records. The event is the one step that puts a
\* record into the paused table.
C17_PausedOnlyRecords ==
  [][\A id \in FetchIds :
       (/\ id \in DOMAIN pausedRequests'
        /\ id \in DOMAIN pausedRequests =>
             pausedRequests'[id] # pausedRequests[id])
       => LET rec == pausedRequests'[id] IN
            /\ rec.requestId = id
            /\ rec.matchedRule =
                 findMatchingRule(rules, rec.url, rec.resourceType).id
            /\ \A x \in DOMAIN pausedRequests \ {id} :
                 /\ x \in DOMAIN pausedRequests'
                 /\ pausedRequests'[x] = pausedRequests[x]
            /\ fetchSent' = <<>>
            /\ UNCHANGED <<transportVars, rules>>]_vars

\* a request is recorded with a matched rule whose action is to mock, and no
\* request was ever sent
C17_Witness ==
  \E id \in DOMAIN pausedRequests : \E i \in DOMAIN rules :
    /\ pausedRequests[id].matchedRule = rules[i].id
    /\ rules[i].action = "mock"
    /\ fetchSent = <<>>
    /\ requestId = 0
    /\ written = {}

entriesOf(rule) ==
  IF ~rule.enabled THEN <<>>
  ELSE IF rule.resourceTypes.present /\ rule.resourceTypes.types # <<>>
    THEN [i \in DOMAIN rule.resourceTypes.types |->
            CDPTypedPattern(rule.pattern, rule.resourceTypes.types[i])]
  ELSE <<CDPPattern(rule.pattern)>>

\* the entries of the rules, in rule order
RECURSIVE allEntries(_)
allEntries(R) == IF R = <<>> THEN <<>> ELSE entriesOf(Head(R)) \o allEntries(Tail(R))

\* a list without the repetitions of its elements
RECURSIVE firstOccurrences(_, _)
firstOccurrences(q, seen) ==
  IF q = <<>> THEN <<>>
  ELSE IF Head(q) \in seen THEN firstOccurrences(Tail(q), seen)
  ELSE <<Head(q)>> \o firstOccurrences(Tail(q), seen \cup {Head(q)})

\* C21: getCDPPatterns returns, in rule order and without duplicates, one
\* entry for every distinct (pattern, resource type) combination of the
\* enabled rules.
\* Violated: the key of a typed entry, pattern ":" type, can equal the key of
\* an untyped entry, so one of two distinct combinations is left out.
C21_CDPPatterns ==
  getCDPPatterns(getAllRules(rules)) = firstOccurrences(allEntries(rules), {})

\* the n most recent entries of a list
lastN(q, n) == IF Len(q) > n THEN SubSeq(q, Len(q) - n + 1, Len(q)) ELSE q

statedText(arg) ==
  IF arg.type \in {"string", "number", "boolean"} THEN String(arg.value)
  ELSE IF arg.type = "undefined" THEN <<"undefined">>
  ELSE IF arg.description # <<>> THEN arg.description
  ELSE <<"[", arg.type, "]">>

\* the text of one argument, amended: whatever has a value by its value
valueText(arg) ==
  IF arg.type = "undefined" THEN <<"undefined">>
  ELSE IF arg.value.kind # "undefined" THEN String(arg.value)
  ELSE IF arg.description # <<>> THEN arg.description
  ELSE <<"[", arg.type, "]">>

\* texts joined by single spaces
RECURSIVE spaceJoined(_)
spaceJoined(texts) ==
  IF texts = <<>> THEN <<>>
  ELSE IF Len(texts) = 1 THEN texts[1]
  ELSE spaceJoined(SubSeq(texts, 1, Len(texts) - 1)) \o <<" ">> \o texts[Len(texts)]

\* the level as stated
statedLevel(type) ==
  CASE type \in {"error", "assert"} -> "error"
    [] type \in {"warning", "warn"} -> "warning"
    [] type = "info" -> "info"
    [] type \in {"debug", "trace"} -> "debug"
    [] OTHER -> "log"

\* C30 as stated: the text of a console message is the space-joined
\* flattening of its arguments (string, number, boolean and undefined
\* literally, objects by their description, otherwise [type]) and its level
\* is derived from the console type.
\* Violated by null: it is an object that carries the value null and no
\* description, and it is rendered by its value.
C30_TextAndLevel ==
  lastConsole.asked =>
    /\ lastConsole.msg.text =
         spaceJoined([i \in DOMAIN lastConsole.params.args |->
                        statedText(lastConsole.params.args[i])])
    /\ lastConsole.msg.level = statedLevel(lastConsole.params.type)
    /\ lastConsole.msg.level \in {"log", "info", "warning", "error", "debug"}

\* C30, amended: every argument that carries a value (a string, a number, a
\* boolean, null) is rendered by that value, undefined literally, every other
\* argument by its description or, without one, by [type]; the texts are
\* joined by spaces; the level is derived from the console type.
C30_TextByValueAndLevel ==
  lastConsole.asked =>
    /\ lastConsole.msg.text =
         spaceJoined([i \in DOMAIN lastConsole.params.args |->
                        valueText(lastConsole.params.args[i])])
    /\ lastConsole.msg.level = statedLevel(lastConsole.params.type)
    /\ lastConsole.msg.level \in {"log", "info", "warning", "error", "debug"}

\* a log of a number and null
C30_Witness ==
  /\ lastConsole.asked
  /\ lastConsole.params.args =
       <<RemoteObject("number", Num(1), <<"1">>), RemoteObject("object", Null, <<>>)>>
  /\ lastConsole.msg.text = <<"1", " ", "null">>
  /\ lastConsole.msg.level = "log"

\* ---- the projections side by side ----
\* FetchInterceptor.getAllPausedRequests: the values of the paused table
getAllPausedRequests(P) == {P[id] : id \in DOMAIN P}

\* C22: setEnabled(false) leaves every query of the projection empty and
\* every count zero: no pause and no breakpoint for DebugState, no request
\* for NetworkState, no message and no exception for ConsoleState, no rule
\* and no paused request for FetchInterceptor.
C22_DisabledIsEmpty ==
  [][/\ SetEnabledDone(FALSE) =>
          /\ ~isPaused(pauseState')
          /\ getCallFrames(pauseState') = <<>>
          /\ getAllBreakpoints(breakpoints') = {}
     /\ SetNetworkEnabledDone(FALSE) =>
          /\ getAllRequests(netRequests') = <<>>
          /\ getCount(netRequests') = 0
     /\ SetConsoleEnabledDone(FALSE) =>
          /\ getMessages(messages') = <<>>
          /\ getExceptions(exceptions') = <<>>
          /\ getMessageCount(messages') = 0
          /\ getExceptionCount(exceptions') = 0
     /\ SetFetchEnabledDone(FALSE) =>
          /\ getAllPausedRequests(pausedRequests') = {}
          /\ getAllRules(rules') = <<>>]_vars

\* C24: a disconnect followed by a reconnect leaves the projections as they
\* were: neither disconnect() nor the connect() after it changes the
\* breakpoints, the network requests, the console messages and exceptions or
\* the intercept rules.
C24_KeptAcrossReconnect ==
  [][(Disconnect \/ Connect \/ \E s \in Sockets : SockOpen(s)) =>
       /\ getAllBreakpoints(breakpoints') = getAllBreakpoints(breakpoints)
       /\ getAllRequests(netRequests') = getAllRequests(netRequests)
       /\ getMessages(messages') = getMessages(messages)
       /\ getExceptions(exceptions') = getExceptions(exceptions)
       /\ getAllRules(rules') = getAllRules(rules)]_vars

\* C23: an inbound event is stored whatever the enabled flag of its domain
\* says: after Debugger.paused the pause state holds the reason and the call
\* frames of the event, after Network.requestWillBeSent the request is in the
\* store, after Runtime.consoleAPICalled the message is the newest one, after
\* Fetch.requestPaused the request is in the paused table, and none of these
\* steps changes a flag.
C23_EventsStoredRegardless ==
  [][/\ (\E s \in Sockets : PausedEvent(s, ProjPaused)) =>
          /\ isPaused(pauseState')
          /\ getReason(pauseState') = ProjPaused.reason
          /\ getCallFrames(pauseState') = ProjPaused.callFrames
          /\ enabled' = enabled
     /\ (\E s \in Sockets : RequestWillBeSentEvent(s, 1)) =>
          /\ \E i \in DOMAIN netRequests' : netRequests'[i].requestId = 1
          /\ netEnabled' = netEnabled
     /\ (\E s \in Sockets : ConsoleAPICalledEvent(s, ProjConsole)) =>
          /\ messages' # <<>>
          /\ messages'[Len(messages')].id = messageIdCounter + 1
          /\ messages'[Len(messages')].text = <<"a">>
          /\ consoleEnabled' = consoleEnabled
     /\ RequestPausedEvent("req-1", <<"a">>, "XHR") =>
          /\ "req-1" \in DOMAIN pausedRequests'
          /\ getPausedRequest(pausedRequests', "req-1").url = <<"a">>
          /\ fetchEnabled' = fetchEnabled]_vars

\* every projection holds its event, two of the domains enabled and two not
C23_Witness ==
  /\ enabled /\ ~netEnabled /\ consoleEnabled /\ ~fetchEnabled
  /\ isPaused(pauseState)
  /\ netRequests # <<>>
  /\ messages # <<>>
  /\ "req-1" \in DOMAIN pausedRequests

\* C26: what a query hands out is a copy: when a caller writes to the rule
\* getRule returned, to an element of the array getAllRules returned, or to
\* that array, the rules the table stores stay as they were and a later
\* getAllRules() returns the same rules.
C26_ResultsAreCopies ==
  [][lastTurn' \in {"callerWrote", "callerPushed"} =>
       getAllRules(rules') = getAllRules(rules)]_vars

\* ---- withBreakpointDetection ----
\* the detection window ends in this step without a Debugger.paused event
windowElapses ==
  /\ detect.pc = "window"
  /\ detect'.pc = "returned"
  /\ lastTurn' # "paused"

\* C25: a call made with the debugger enabled and not paused first awaits the
\* response of its operation (a pause that arrives before it leaves the call
\* waiting, and the handler is registered by the response only); a
\* Debugger.paused event in the window makes the call return paused = true
\* with the reason and the call frames of that event; when the window ends
\* without one the call returns the result of the operation with
\* paused = false; the handler is removed in both cases.
C25_DetectionWindow ==
  [][/\ (lastTurn' = "paused" /\ detect.pc = "op") => detect' = detect
     /\ (detect'.handler /\ ~detect.handler) =>
          /\ detect.pc = "op"
          /\ detect'.pc = "window"
          /\ detect'.result \in DetectionResults
     /\ (lastTurn' = "paused" /\ detect.pc = "window") =>
          /\ detect'.pc = "returned"
          /\ detect'.out.paused
          /\ detect'.out.pauseReason = getReason(pauseState')
          /\ detect'.out.callFrames = getCallFrames(pauseState')
          /\ ~detect'.handler
     /\ windowElapses =>
          /\ ~detect'.out.paused
          /\ detect'.out.result = detect.result
          /\ ~detect'.handler]_vars

\* C25, amended: as C25, but when the window ends without a Debugger.paused
\* event the call looks at the pause state once more: if the page is paused
\* (the pause arrived while the operation was awaited) it returns
\* paused = true with the stored reason and call frames, and only otherwise
\* the result of the operation with paused = false.
C25_DetectionWindowOrState ==
  [][/\ (lastTurn' = "paused" /\ detect.pc = "op") => detect' = detect
     /\ (detect'.handler /\ ~detect.handler) =>
          /\ detect.pc = "op"
          /\ detect'.pc = "window"
          /\ detect'.result \in DetectionResults
     /\ (lastTurn' = "paused" /\ detect.pc = "window") =>
          /\ detect'.pc = "returned"
          /\ detect'.out.paused
          /\ detect'.out.pauseReason = getReason(pauseState')
          /\ detect'.out.callFrames = getCallFrames(pauseState')
          /\ ~detect'.handler
     /\ windowElapses =>
          /\ IF isPaused(pauseState)
               THEN /\ detect'.out.paused
                    /\ detect'.out.pauseReason = getReason(pauseState)
                    /\ detect'.out.callFrames = getCallFrames(pauseState)
               ELSE /\ ~detect'.out.paused
                    /\ detect'.out.result = detect.result
          /\ ~detect'.handler]_vars

\* the response of the operation came first and the pause within the window
C25_Witness ==
  /\ lastTurn = "paused"
  /\ detect.pc = "returned"
  /\ detect.result \in DetectionResults
  /\ detect.out.paused
  /\ detect.out.pauseReason = "other"
  /\ detect.out.callFrames = <<"f2", "f1">>
  /\ ~detect.handler

\* ---- the ids and the deadlines of the transport ----
\* C27: the transport alone assigns the ids, one more than the last for each
\* send: every pending slot and every written frame carries an id the
\* counter has handed out, a step stores at most one new slot and writes at
\* most one frame, both under the id the counter reaches in that very step
\* and that no pending slot holds, so that the frames are written in the
\* order of the sends and of their ids.
C27_IdsInOrder ==
  /\ [](/\ DOMAIN pendingRequests \subseteq 1..requestId
        /\ written \subseteq 1..requestId)
  /\ [][/\ requestId' \in {requestId, requestId + 1}
        /\ (DOMAIN pendingRequests \subseteq DOMAIN pendingRequests' =>
              \/ pendingRequests' = pendingRequests
              \/ /\ requestId' = requestId + 1
                 /\ requestId' \notin DOMAIN pendingRequests
                 /\ DOMAIN pendingRequests' =
                      DOMAIN pendingRequests \cup {requestId'}
                 /\ \A r \in DOMAIN pendingRequests :
                      pendingRequests'[r] = pendingRequests[r])
        /\ written \subseteq written'
        /\ (written' # written =>
              /\ requestId' = requestId + 1
              /\ written' = written \cup {requestId'}
              /\ \A r \in written : r < requestId')]_vars

\* two sends in flight, both written, under the ids 1 and 2
C27_Witness ==
  /\ requestId = 2
  /\ DOMAIN pendingRequests = {1, 2}
  /\ written = {1, 2}
  /\ \E s \in Sockets : wire[s] = {1, 2}

\* the timer of request r fires in this step: it was armed, and neither a
\* frame nor a socket callback nor a call is what moves
timerFires(r) ==
  /\ r \in timers
  /\ r \notin timers'
  /\ UNCHANGED <<socketVars, wire, nCalls>>

\* a frame that answers request r arrives on socket s in this step
responseArrives(s, r) ==
  /\ r \in wire[s]
  /\ r \notin wire'[s]

\* C28: every pending send has its own armed timer; when the timer of r
\* fires the promise of r is rejected with the timeout error of its method
\* and id, its slot and its timer are gone and every other slot and timer is
\* as before; a response for an id that is not pending delivers nothing to
\* any caller and leaves the pending table, the timers and the promises as
\* they were.
C28_DeadlinePerSend ==
  /\ [](timers = DOMAIN pendingRequests)
  /\ [][/\ \A r \in Ids : timerFires(r) =>
             /\ r \in DOMAIN pendingRequests
             /\ r \notin DOMAIN pendingRequests'
             /\ r \notin timers'
             /\ settled'[r] = settled[r] + 1
             /\ \A c \in DOMAIN returned' :
                  /\ returned'[c].err = "timeout"
                  /\ returned'[c].req = r
                  /\ Method(returned'[c].op) = pendingRequests[r].method
             /\ \A d \in discarded' : d = <<r, "timeout">>
             /\ \A q \in DOMAIN pendingRequests \ {r} :
                  /\ q \in DOMAIN pendingRequests'
                  /\ pendingRequests'[q] = pendingRequests[q]
                  /\ q \in timers'
                  /\ settled'[q] = settled[q]
        /\ \A s \in Sockets, r \in Ids \ DOMAIN pendingRequests :
             responseArrives(s, r) =>
               /\ returned' = Empty
               /\ discarded' = {}
               /\ UNCHANGED <<pendingRequests, timers, settled, calls>>]_vars

\* the send of request 1 has just timed out while its frame is still
\* unanswered on the socket, and request 2 is pending with its timer armed
C28_Witness ==
  /\ \E c \in DOMAIN returned :
       returned[c].err = "timeout" /\ returned[c].req = 1
  /\ 1 \notin DOMAIN pendingRequests
  /\ ws # 0 /\ delivers(ws) /\ 1 \in wire[ws]
  /\ 2 \in DOMAIN pendingRequests
  /\ 2 \in timers

\* ---- NetworkState: the cap and the ids stored twice ----
\* C34: the store never holds more records than maxRequests allows, whatever
\* the requestWillBeSent events and the setMaxRequests calls were, also right
\* after setMaxRequests has lowered the cap below the count.
C34_CountWithinCap == getCount(netRequests) <= maxRequests

\* the ids of the records stored
storedIds(R) == {R[i].requestId : i \in DOMAIN R}

\* C35: a requestWillBeSent event whose requestId is already stored replaces
\* that record only: every id stored before is stored afterwards and the
\* count is the same, also when the store is at its cap.
C35_StoredIdReplacesOnly ==
  [][\A id \in NetIds :
       (netLog' = Append(netLog, id) /\ id \in storedIds(netRequests)) =>
         /\ storedIds(getAllRequests(netRequests')) = storedIds(netRequests)
         /\ getCount(netRequests') = getCount(netRequests)]_vars

\* ---- the close event of a dropped socket ----
\* C33: the close event of a socket that disconnect() dropped leaves the
\* connection made afterwards alone: the transport stays connected, the
\* pending sends of the new connection stay pending with their timers, no
\* promise is settled and no call returns.
C33_StaleCloseIgnored ==
  [][\A s \in Sockets :
       (/\ dropped(s)
        /\ sockState'[s] = "closed"
        /\ ws # 0 /\ sockState[ws] = "open" /\ connected) =>
         /\ connected'
         /\ UNCHANGED <<pendingRequests, timers, settled, calls>>
         /\ returned' = Empty]_vars

\* ---- the enabled flags ----
\* C37: a projection reports enabled only while the connection on which its
\* domain was enabled is open, and after disconnect() every projection
\* reports not enabled.
C37_EnabledMirrorsConnection ==
  /\ [](enabled \/ netEnabled \/ consoleEnabled \/ fetchEnabled =>
          ws # 0 /\ connected)
  /\ [][lastTurn' = "disconnect" =>
          ~enabled' /\ ~netEnabled' /\ ~consoleEnabled' /\ ~fetchEnabled']_vars

\* ---- the dispatch whose Fetch request fails ----
\* C39: when the Fetch request of a dispatch fails, the error goes to the
\* caller and the paused table is as it was: the entry of the request is
\* still there.
C39_FailedDispatchKeepsEntry ==
  [][(dispatching.pending /\ ~dispatching'.pending /\ toolResult' = "error") =>
       /\ pausedRequests' = pausedRequests
       /\ dispatching.requestId \in DOMAIN pausedRequests']_vars

\* ---- evaluate: the check, the frame and the handler in one turn ----
\* C38: an evaluate() made with the debugger enabled and not paused, on an
\* open connection, writes its Runtime.evaluate frame and registers its
\* handler in one and the same turn, in which no frame is processed (the pause
\* state is the one the check saw); and from then on a Debugger.paused event
\* reaches the handler of every such call that is still outstanding: the call
\* returns paused in the turn of the event.
C38_NoFrameBetween ==
  [][/\ (issuedOp = "evaluate" /\ enabled /\ ~isPaused(pauseState)
           /\ sendAccepted(ws, connected) /\ sockState[ws] = "open") =>
          /\ written' = written \cup {requestId'}
          /\ requestId' \notin written
          /\ nCalls' \in listeners'
          /\ nCalls' \in DOMAIN calls'
          /\ calls'[nCalls'].req = requestId'
          /\ UNCHANGED <<pauseState, enabled>>
          /\ lastTurn' # "paused"
     /\ \A c \in DOMAIN calls :
          (calls[c].op = "evaluate" /\ c \in listeners
             /\ calls[c].req \in written /\ lastTurn' = "paused") =>
            /\ c \in DOMAIN returned'
            /\ returned'[c].paused
            /\ c \notin listeners']_vars

\* an evaluate has just written its frame, its handler is registered, the
\* page is running and the frame is unanswered
C38_Witness ==
  /\ enabled /\ ~isPaused(pauseState)
  /\ nCalls \in DOMAIN calls
  /\ calls[nCalls].op = "evaluate"
  /\ nCalls \in listeners
  /\ calls[nCalls].req = requestId
  /\ ws # 0 /\ requestId \in wire[ws]

\* ---- several evaluate() calls and one pause ----
\* C40: when a Debugger.paused event is delivered, every evaluate() that is
\* waiting in its race returns in that turn, once, with paused = true and the
\* reason and call frames of the event, which the pause state holds by then;
\* no handler stays registered; a Debugger.paused event that finds no call
\* waiting updates the pause state and nothing else.
C40_OnePauseEveryCall ==
  [][lastTurn' = "paused" =>
       /\ isPaused(pauseState')
       /\ DOMAIN returned' = listeners
       /\ \A c \in listeners :
            /\ c \in DOMAIN calls /\ c \notin DOMAIN calls'
            /\ returned'[c].paused
            /\ returned'[c].pauseReason = getReason(pauseState')
            /\ returned'[c].callFrames = getCallFrames(pauseState')
       /\ listeners' = {}
       /\ listeners = {} =>
            /\ returned' = Empty
            /\ UNCHANGED <<calls, transportVars, enabled, nCalls>>]_vars

\* two evaluate() calls have returned paused in the turn of one event
C40_Witness ==
  /\ lastTurn = "paused"
  /\ Cardinality(DOMAIN returned) >= 2
  /\ \A c \in DOMAIN returned :
       /\ returned[c].op = "evaluate"
       /\ returned[c].paused
       /\ returned[c].callFrames = getCallFrames(pauseState)

\* ---- the body of a fulfilment ----
\* the body the browser takes from the params: an absent body is empty
wireBody(params) == IF params.body = <<>> THEN <<>> ELSE params.body[1]

\* C31: the frame of a fulfilment with a text body carries the base64
\* encoding of the text, and the frame of a fulfilment with the content of
\* a file carries the base64 encoding of that content, encoded once.
C31_BodyOnTheWire ==
  /\ fulfillFrame.tool = "fulfill_request" =>
       wireBody(fulfillFrame.params) = base64(utf8(fulfillFrame.given))
  /\ fulfillFrame.tool = "fulfill_request_with_file" =>
       wireBody(fulfillFrame.params) = base64(fulfillFrame.given)

\* ---- the source cache ----
\* C32: a getScriptSource for a script whose source was fetched since the
\* last reset sends no request and returns the source that was fetched.
C32_CachedSourceNoCall ==
  [][\A id \in ScriptIds :
       (/\ id \in DOMAIN sourceCache
        /\ nSourceCalls' = nSourceCalls + 1
        /\ lastSource'.scriptId = id) =>
         /\ ~lastSource'.sent
         /\ lastSource'.outcome = "returned"
         /\ lastSource'.returned = <<sourceCache[id]>>]_vars

\* ---- the url index ----
\* C36: for every url, getScriptsByUrl returns exactly the stored scripts
\* whose url it is.
C36_UrlIndexConsistent ==
  \A url \in ScriptUrls :
    getScriptsByUrl(Registry, url) =
      {script \in getAllScripts(Registry) : script.url = url}

====
